---------------------------- MODULE Spec2Model ----------------------------
(***************************************************************************)
(* Model of the procedural-art core of social-story-generator:             *)
(*   - hashString            (src/lib/utils.js, src/generate.js)           *)
(*   - applyGlitchEffects    (src/lib/pixel-glitch.js, src/generate.js)    *)
(*   - getGlitchMix, applyPixelSortH/V, applyColorShift, PerlinNoise       *)
(*                           (src/lib/pixel-glitch.js)                     *)
(*   - generateConstellation (src/generate.js, lib/constellation.js)       *)
(*   - glitchColor, sophisticatedColorGlitch, ColorOrchestrator            *)
(*                           (lib/advanced-color-system.js and the colour  *)
(*                            science module before it)                    *)
(*                                                                         *)
(* Values drawn from a seeded Chance generator are modelled as choices     *)
(* over the range the call can return.  JavaScript numbers that leave the  *)
(* 32-bit range are kept as two 16-bit limbs (hi * 65536 + lo).            *)
(***************************************************************************)
EXTENDS Integers, Sequences, FiniteSets, Bags, TLC

VARIABLES
    \* ---- hashString: one string hashed by both implementations ----
    hText,      \* the argument str, a sequence of UTF-16 code units
    hIU,        \* utils.js: loop index i of the running call
    hHashU,     \* utils.js: local variable hash of the running call
    hRetU,      \* utils.js: values returned by the calls made so far
    hIG,        \* generate.js: loop index i of the running call
    hHashG,     \* generate.js: local variable hash of the running call
    hRetG       \* generate.js: values returned by the calls made so far

VARIABLES
    \* ---- one call of applyGlitchEffects(imageBuffer, quote, useMix) ----
    gEngine,    \* "lib": lib/pixel-glitch.js, "generate": generate.js
    gInput,     \* the imageBuffer argument
    gUseMix,    \* the useMix argument
    gCharCount, \* quote.text.length
    gPc,        \* the statement the call has reached
    gFlips,     \* getGlitchMix: the effects whose chance.bool came up true
    gMix,       \* mix: the selected effects
    gIf,        \* index of the next if-statement of the filter chain
    gApplied,   \* pixels: the filters that have run on the decoded copy
    gThrewAt,   \* where an error was raised inside the call ("none" if none)
    gFailed,    \* the filter that raised it ("none" if none)
    gWarned,    \* console.warn has been called
    gResult     \* how the returned promise settled

VARIABLES
    \* ---- applyPixelSortH / applyPixelSortV on one pixel buffer ----
    sWidth,     \* width
    sHeight,    \* height
    sChannels,  \* channels
    sPixels,    \* pixels: the flat buffer, sample k at sPixels[k + 1]
    sOrig,      \* the buffer as it was before the first filter
    sTodo,      \* the sort filters of the mix still to run, in order
    sPc,        \* "idle", "sortH", "sortV" (inside the loop) or "done"
    sLines,     \* sortLines of the running filter
    sI,         \* loop index i of the running filter
    sSeg        \* the segment sorted by the last iteration

VARIABLES
    \* ---- applyColorShift on one pixel buffer and its noise mask ----
    cWidth,     \* width
    cHeight,    \* height
    cChannels,  \* channels
    cPixels,    \* pixels: the flat buffer, sample k at cPixels[k + 1]
    cOrig,      \* the buffer as it was when applyColorShift was called
    cMask,      \* noiseMask, in units of 1/10000: value k at cMask[k + 1]
    cStrategy,  \* strategy picked by chance.pickone ("none" before)
    cThreshold, \* threshold of the strategy, in units of 1/10000
    cPc,        \* "start", "loop" or "done"
    cY,         \* loop variable y
    cX          \* loop variable x

VARIABLES
    \* ---- PerlinNoise: constructor and generateMask ----
    pP,        \* generatePermutation: the array p, value k at pP[k + 1]
    pI,        \* generatePermutation: loop variable i
    pTable,    \* this.permutation (<<>> until the constructor has returned)
    pPc,       \* "shuffle", "built", "mask" or "done"
    mWidth,    \* generateMask: width
    mHeight,   \* generateMask: height
    mScale,    \* generateMask: scale, in quarters
    mOctaves,  \* generateMask: octaves
    mMask,     \* generateMask: mask, in units of 1/MaskUnit
    mY,        \* generateMask: loop variable y
    mX         \* generateMask: loop variable x

VARIABLES
    \* ---- two runs of applyGlitchEffects (lib/pixel-glitch.js) ----
    mtStream,  \* what random() of a generator seeded with the seed returns
    tInfo,     \* { width, height, channels } of the decoded image
    tUseMix,   \* useMix
    tRuns      \* per run: position in the code and its local variables

\* the key word of a quote: the nouns and adjectives the NLP library found,
\* the words still candidates, the crypto stars made
VARIABLES
    kImpl, kNouns, kAdjectives, kBounds, kWords, kStars, kPc

\* two calls of generateConstellation: the implementation called, the
\* outputs of the generator of the seed, the quote, the bounds, the calls
VARIABLES
    oImpl, oStream, oQuote, oBounds, oRuns

\* the colour perturbation: the function called, its arguments, the outputs
\* of the generator of the seed, whether the library's conversions throw
\* on the base colour, and the two calls made
VARIABLES
    qFunction, qBaseColor, qLikelihood, qStream, qThrows, qCalls

\* main of generate.js: the quotes parsed, the --ae flag, the loop indices,
\* the item in progress, the seeds taken for the quote at hand by
\* template, the items ended so far and the count printed
VARIABLES
    bQuotes, bAe, bI, bT, bItem, bSeeds, bPc, bLog, bCount

\* the filters of one mix run on one decoded image: its shape and samples,
\* the filter whose if is next, whether its loop is running, the shifts
\* drawn by applyChannelShift, the iterations of the loop and those done,
\* the filters applied so far and the indices assigned by the last step
VARIABLES
    fWidth, fHeight, fChannels, fPixels, fNext, fRunning, fShift, fCount, fI,
    fApplied, fWritten,
    fVariant    \* the applyDataMosh a caller means to run and the one running

\* seededRandom: the seed of the quote, seedValue of each generator and
\* the values each has returned, as numerators over 233280
VARIABLES
    lSeed, lValue, lDrawn

\* noise: the table of the PerlinNoise, the coordinates of the last call
\* in units of 1 / CoordUnit, and the table indices that call read
VARIABLES
    nTable, nX, nY, nReads

\* the applyDataMosh of line 333: the image and its shape, the image as
\* given, where the function is, moshCount and the blocks done, blockSizeMin
\* and blockSizeMax in units of 1/10000, blockSize, attempts, and the
\* positions and variationCount of the last attempt
VARIABLES
    dWidth, dHeight, dChannels, dOrig, dPixels, dPc, dCount, dI, dMin, dMax,
    dBlockSize, dAttempts, dSource

hashVars == <<hText, hIU, hHashU, hRetU, hIG, hHashG, hRetG>>
glitchVars == <<gEngine, gInput, gUseMix, gCharCount, gPc, gFlips, gMix, gIf,
                gApplied, gThrewAt, gFailed, gWarned, gResult>>

sortVars == <<sWidth, sHeight, sChannels, sPixels, sOrig, sTodo, sPc, sLines,
              sI, sSeg>>

colorVars == <<cWidth, cHeight, cChannels, cPixels, cOrig, cMask, cStrategy,
               cThreshold, cPc, cY, cX>>

perlinVars == <<pP, pI, pTable, pPc, mWidth, mHeight, mScale, mOctaves,
                mMask, mY, mX>>

runVars == <<mtStream, tInfo, tUseMix, tRuns>>

keyVars == <<kImpl, kNouns, kAdjectives, kBounds, kWords, kStars, kPc>>

overlayVars == <<oImpl, oStream, oQuote, oBounds, oRuns>>

perturbVars == <<qFunction, qBaseColor, qLikelihood, qStream, qThrows, qCalls>>

batchVars == <<bQuotes, bAe, bI, bT, bItem, bSeeds, bPc, bLog, bCount>>

filterVars == <<fWidth, fHeight, fChannels, fPixels, fNext, fRunning, fShift,
               fCount, fI, fApplied, fWritten, fVariant>>

lcgVars == <<lSeed, lValue, lDrawn>>

noiseVars == <<nTable, nX, nY, nReads>>

moshVars == <<dWidth, dHeight, dChannels, dOrig, dPixels, dPc, dCount, dI, dMin,
             dMax, dBlockSize, dAttempts, dSource>>

vars ==
    <<hashVars, glitchVars, sortVars, colorVars, perlinVars, runVars, keyVars,
      overlayVars, perturbVars, batchVars, filterVars, lcgVars, noiseVars, moshVars>>

nonHashVars ==
    <<glitchVars, sortVars, colorVars, perlinVars, runVars, keyVars,
      overlayVars, perturbVars, batchVars, filterVars, lcgVars, noiseVars, moshVars>>
nonGlitchVars ==
    <<hashVars, sortVars, colorVars, perlinVars, runVars, keyVars,
      overlayVars, perturbVars, batchVars, filterVars, lcgVars, noiseVars, moshVars>>
nonSortVars ==
    <<hashVars, glitchVars, colorVars, perlinVars, runVars, keyVars,
      overlayVars, perturbVars, batchVars, filterVars, lcgVars, noiseVars, moshVars>>
nonColorVars ==
    <<hashVars, glitchVars, sortVars, perlinVars, runVars, keyVars,
      overlayVars, perturbVars, batchVars, filterVars, lcgVars, noiseVars, moshVars>>
nonPerlinVars ==
    <<hashVars, glitchVars, sortVars, colorVars, runVars, keyVars,
      overlayVars, perturbVars, batchVars, filterVars, lcgVars, noiseVars, moshVars>>
nonRunVars ==
    <<hashVars, glitchVars, sortVars, colorVars, perlinVars, keyVars,
      overlayVars, perturbVars, batchVars, filterVars, lcgVars, noiseVars, moshVars>>
nonKeyVars ==
    <<hashVars, glitchVars, sortVars, colorVars, perlinVars, runVars,
      overlayVars, perturbVars, batchVars, filterVars, lcgVars, noiseVars, moshVars>>
nonOverlayVars ==
    <<hashVars, glitchVars, sortVars, colorVars, perlinVars, runVars,
      keyVars, perturbVars, batchVars, filterVars, lcgVars, noiseVars, moshVars>>
nonPerturbVars ==
    <<hashVars, glitchVars, sortVars, colorVars, perlinVars, runVars,
      keyVars, overlayVars, batchVars, filterVars, lcgVars, noiseVars, moshVars>>
nonBatchVars ==
    <<hashVars, glitchVars, sortVars, colorVars, perlinVars, runVars,
      keyVars, overlayVars, perturbVars, filterVars, lcgVars, noiseVars, moshVars>>
nonFilterVars ==
    <<hashVars, glitchVars, sortVars, colorVars, perlinVars, runVars,
      keyVars, overlayVars, perturbVars, batchVars, lcgVars, noiseVars, moshVars>>
nonLcgVars ==
    <<hashVars, glitchVars, sortVars, colorVars, perlinVars, runVars,
      keyVars, overlayVars, perturbVars, batchVars, filterVars, noiseVars, moshVars>>
nonNoiseVars ==
    <<hashVars, glitchVars, sortVars, colorVars, perlinVars, runVars,
      keyVars, overlayVars, perturbVars, batchVars, filterVars, lcgVars, moshVars>>
nonMoshVars ==
    <<hashVars, glitchVars, sortVars, colorVars, perlinVars, runVars,
      keyVars, overlayVars, perturbVars, batchVars, filterVars, lcgVars, noiseVars>>

-----------------------------------------------------------------------------
(* Bounds *)

\* longest string hashed
MaxLen == 5
\* calls of hashString made on the same string
MaxCalls == 2
\* longer side of the images given to the pixel-sort filters
MaxSide == 4
\* most lines sorted by one call of a pixel-sort filter
MaxSortLines == 3
\* width of the images given to applyColorShift (their height is 2)
MaxColorWidth == 2
\* length of the permutation of PerlinNoise (256 in the code); the masks
\* "& 255" of noise are "% PermSize" here
PermSize == 4
\* greatest width and height given to generateMask
MaxMaskSide == 6
\* greatest octave count given to generateMask
MaxOctaves == 3
\* length of the stream of a generator before it repeats
StreamLen == 3
\* the most nouns, and the most adjectives, of a quote
MaxWords == 2
\* the most quotes of a corpus
MaxQuotes == 2
\* the largest width and height of an image filtered
MaxFilterSide == 2
\* the most iterations modelled of a loop with a drawn count
MaxIter == 2
\* the most draws of a seededRandom generator
MaxDraws == 3
\* width and height of the image given to the applyDataMosh of line 333
MoshSide == 9

\* code units a string is made of: space, 'a', and the largest code unit
Chars == {32, 97, 65535}

RECURSIVE StringsOfLen(_)
StringsOfLen(n) ==
    IF n = 0 THEN {<<>>}
    ELSE {Append(s, c) : s \in StringsOfLen(n - 1), c \in Chars}

Strings == UNION {StringsOfLen(n) : n \in 0..MaxLen}

-----------------------------------------------------------------------------
(* 32-bit integer arithmetic of JavaScript, on 16-bit limbs *)

Hi16(n) == n \div 65536
Lo16(n) == n % 65536

\* ToInt32 of the mathematical value hi * 65536 + lo
ToInt32(hi, lo) ==
    LET h  == (hi + (lo \div 65536)) % 65536
        hs == IF h >= 32768 THEN h - 65536 ELSE h
    IN  hs * 65536 + (lo % 65536)

\* hash << 5
Shl5(h) == ToInt32(Hi16(h) * 32, Lo16(h) * 32)

\* ToInt32 of ((hash << 5) - hash + c)
Int32Step(h, c) ==
    LET s == Shl5(h)
    IN  ToInt32(Hi16(s) - Hi16(h), Lo16(s) - Lo16(h) + c)

\* x & 0x7fffffff for an int32 x
And7fffffff(x) == IF x < 0 THEN (x + 2147483647) + 1 ELSE x

\* A JavaScript number n as the limbs of n = hi * 65536 + lo, 0 <= lo < 65536
Num(n) == [hi |-> Hi16(n), lo |-> Lo16(n)]

MathAbsMissing(h) == Num(h)

\* Math.abs(h) for an int32 h; Math.abs(-2^31) is 2^31, a double
MathAbs(h) ==
    IF h >= 0 THEN Num(h)
    ELSE IF Lo16(h) = 0 THEN [hi |-> -Hi16(h), lo |-> 0]
    ELSE [hi |-> -Hi16(h) - 1, lo |-> 65536 - Lo16(h)]

NonNegative(n) == n.hi >= 0 /\ n.lo \in 0..65535

-----------------------------------------------------------------------------
(* hashString *)

\* lib/utils.js: hash = ((hash << 5) - hash + str.charCodeAt(i)) & 0x7fffffff
UtilsHashStep(h, c) == And7fffffff(Int32Step(h, c))

\* generate.js: hash = ((hash << 5) - hash) + char; hash = hash & hash
GenHashStep(h, c) == Int32Step(h, c)

HashStart ==
    /\ hIU = 0 /\ hHashU = 0 /\ hRetU = <<>>
    /\ hIG = 0 /\ hHashG = 0 /\ hRetG = <<>>

\* no call of hashString is modelled
HashIdle == hText = <<>> /\ HashStart

\* one iteration of the loop of hashString in lib/utils.js
UtilsHashLoop ==
    /\ Len(hRetU) < MaxCalls
    /\ hIU < Len(hText)
    /\ hHashU' = UtilsHashStep(hHashU, hText[hIU + 1])
    /\ hIU' = hIU + 1
    /\ UNCHANGED <<hText, hRetU, hIG, hHashG, hRetG>>
    /\ UNCHANGED nonHashVars

\* return Math.abs(hash); the next call starts with let hash = 0, i = 0
UtilsHashReturn ==
    /\ Len(hRetU) < MaxCalls
    /\ hIU = Len(hText)
    /\ hRetU' = Append(hRetU, MathAbs(hHashU))
    /\ hIU' = 0
    /\ hHashU' = 0
    /\ UNCHANGED <<hText, hIG, hHashG, hRetG>>
    /\ UNCHANGED nonHashVars

\* one iteration of the loop of hashString in generate.js
GenHashLoop ==
    /\ Len(hRetG) < MaxCalls
    /\ hIG < Len(hText)
    /\ hHashG' = GenHashStep(hHashG, hText[hIG + 1])
    /\ hIG' = hIG + 1
    /\ UNCHANGED <<hText, hRetG, hIU, hHashU, hRetU>>
    /\ UNCHANGED nonHashVars

GenHashReturn ==
    /\ Len(hRetG) < MaxCalls
    /\ hIG = Len(hText)
    /\ hRetG' = Append(hRetG, MathAbs(hHashG))
    /\ hIG' = 0
    /\ hHashG' = 0
    /\ UNCHANGED <<hText, hIU, hHashU, hRetU>>
    /\ UNCHANGED nonHashVars

NextHash ==
    \/ UtilsHashLoop
    \/ UtilsHashReturn
    \/ GenHashLoop
    \/ GenHashReturn

-----------------------------------------------------------------------------
(* getGlitchMix *)

\* GLITCH_TYPES
Effects == {"channel_shift", "pixel_sort_horizontal", "pixel_sort_vertical",
            "data_mosh", "scanlines", "interlace", "noise", "mirror",
            "color_shift"}

\* effectWeights: the likelihood (in percent) of each effect
EffectWeights ==
    [e \in Effects |->
        CASE e = "channel_shift"         -> 80
          [] e = "pixel_sort_horizontal" -> 60
          [] e = "pixel_sort_vertical"   -> 50
          [] e = "data_mosh"             -> 45
          [] e = "color_shift"           -> 40
          [] e = "scanlines"             -> 30
          [] e = "noise"                 -> 25
          [] e = "interlace"             -> 20
          [] e = "mirror"                -> 15]

\* chance.bool({ likelihood }) is random() * 100 < likelihood, random() in [0,1)
BoolCanBeTrue(likelihood) == likelihood > 0
BoolCanBeFalse(likelihood) == likelihood < 100

\* the outcomes the nine chance.bool calls of getGlitchMix can have:
\* the set of effects whose coin came up true
CoinOutcomes ==
    {heads \in SUBSET Effects :
        /\ \A e \in heads : BoolCanBeTrue(EffectWeights[e])
        /\ \A e \in Effects \ heads : BoolCanBeFalse(EffectWeights[e])}

GetGlitchMixNoFallback(heads) == heads

\* getGlitchMix, given the coins: mix[effect] = true for each head, and the
\* colour shift when Object.keys(mix).length === 0
GetGlitchMix(heads) ==
    IF Cardinality(heads) = 0 THEN {"color_shift"} ELSE heads

\* the mix of applyGlitchEffects: useMix ? getGlitchMix(seed) : { color_shift }
ChooseMix(useMix, heads) ==
    IF useMix THEN GetGlitchMix(heads) ELSE {"color_shift"}

-----------------------------------------------------------------------------
(* applyGlitchEffects *)

\* the imageBuffer arguments: a value that is no Buffer, a Buffer sharp cannot
\* decode, and a Buffer holding an image
Inputs ==
    {[isBuffer |-> FALSE, decodable |-> FALSE],
     [isBuffer |-> TRUE,  decodable |-> FALSE],
     [isBuffer |-> TRUE,  decodable |-> TRUE]}

\* quote.text.length
CharCounts == {0, 7, 46}

IfChainByWeightOrder ==
    <<"channel_shift", "pixel_sort_horizontal", "pixel_sort_vertical",
      "data_mosh", "color_shift", "scanlines", "noise", "interlace", "mirror">>

\* the if-statements of lib/pixel-glitch.js lines 216-250, in program order
IfChain ==
    <<"channel_shift", "pixel_sort_horizontal", "pixel_sort_vertical",
      "data_mosh", "scanlines", "interlace", "noise", "color_shift", "mirror">>

NoValue == [buf |-> "none", applied |-> <<>>]
Pending == [kind |-> "pending", value |-> NoValue]
Rejected == [kind |-> "rejected", value |-> NoValue]
Resolved(v) == [kind |-> "resolved", value |-> v]

\* the very Buffer the caller passed
ImageBuffer == [buf |-> "imageBuffer", applied |-> <<>>]
\* the PNG encoded from pixels, the decoded copy the filters have written to
Encoded(applied) == [buf |-> "encoded", applied |-> applied]

CatchValuePartial == Encoded(gApplied)

\* catch (error) { ...; return imageBuffer }
CatchValue == ImageBuffer

ValidateFailureSoft == Resolved(ImageBuffer)

\* throw new Error('imageBuffer must be a Buffer'): the promise is rejected
ValidateFailure == Rejected

FilterThrowPcIsolated == IF gIf + 1 > Len(IfChain) THEN "encode" ELSE "filters"

\* an error raised by a filter leaves the try block for its only handler
FilterThrowPc == "catch"

GlitchStart ==
    /\ gPc = "validate"
    /\ gFlips = {} /\ gMix = {} /\ gIf = 1 /\ gApplied = <<>>
    /\ gThrewAt = "none" /\ gFailed = "none" /\ gWarned = FALSE
    /\ gResult = Pending

InitGlitch ==
    /\ \/ /\ gEngine = "lib"
          /\ gInput \in Inputs
          /\ gUseMix \in BOOLEAN
          /\ gCharCount = 46
       \/ /\ gEngine = "generate"
          /\ gInput \in {b \in Inputs : b.isBuffer}
          /\ gUseMix = FALSE
          /\ gCharCount \in CharCounts
    /\ GlitchStart

\* no call of applyGlitchEffects is modelled
GlitchIdle ==
    /\ gEngine = "lib" /\ gInput = [isBuffer |-> TRUE, decodable |-> TRUE]
    /\ gUseMix = FALSE /\ gCharCount = 0
    /\ GlitchStart

\* lines 168-171: not a Buffer: warn and throw, outside the try block
ValidateThrows ==
    /\ gEngine = "lib" /\ gPc = "validate"
    /\ ~gInput.isBuffer
    /\ gWarned' = TRUE
    /\ gResult' = ValidateFailure
    /\ gPc' = "done"
    /\ UNCHANGED <<gEngine, gInput, gUseMix, gCharCount, gFlips, gMix, gIf,
                   gApplied, gThrewAt, gFailed>>
    /\ UNCHANGED nonGlitchVars

ValidateOk ==
    /\ gEngine = "lib" /\ gPc = "validate"
    /\ gInput.isBuffer
    /\ gPc' = "decode"
    /\ UNCHANGED <<gEngine, gInput, gUseMix, gCharCount, gFlips, gMix, gIf,
                   gApplied, gThrewAt, gFailed, gWarned, gResult>>
    /\ UNCHANGED nonGlitchVars

\* lines 174-179: sharp decodes; pixels = new Uint8Array(data) is a copy
Decode ==
    /\ gEngine = "lib" /\ gPc = "decode"
    /\ gInput.decodable
    /\ gApplied' = <<>>
    /\ gPc' = "select"
    /\ UNCHANGED <<gEngine, gInput, gUseMix, gCharCount, gFlips, gMix, gIf,
                   gThrewAt, gFailed, gWarned, gResult>>
    /\ UNCHANGED nonGlitchVars

\* lines 174-176: sharp rejects the buffer
DecodeThrows ==
    /\ gEngine = "lib" /\ gPc = "decode"
    /\ ~gInput.decodable
    /\ gThrewAt' = "decode"
    /\ gPc' = "catch"
    /\ UNCHANGED <<gEngine, gInput, gUseMix, gCharCount, gFlips, gMix, gIf,
                   gApplied, gFailed, gWarned, gResult>>
    /\ UNCHANGED nonGlitchVars

\* lines 180-213: seed, noise mask, and the mix
SelectMix ==
    /\ gEngine = "lib" /\ gPc = "select"
    /\ \E heads \in (IF gUseMix THEN CoinOutcomes ELSE {{}}) :
          /\ gFlips' = heads
          /\ gMix' = ChooseMix(gUseMix, heads)
    /\ gIf' = 1
    /\ gPc' = "filters"
    /\ UNCHANGED <<gEngine, gInput, gUseMix, gCharCount, gApplied, gThrewAt,
                   gFailed, gWarned, gResult>>
    /\ UNCHANGED nonGlitchVars

AfterIf == IF gIf + 1 > Len(IfChain) THEN "encode" ELSE "filters"

\* lines 216-250: if (mix[X]) is false
SkipFilter ==
    /\ gEngine = "lib" /\ gPc = "filters"
    /\ IfChain[gIf] \notin gMix
    /\ gIf' = gIf + 1
    /\ gPc' = AfterIf
    /\ UNCHANGED <<gEngine, gInput, gUseMix, gCharCount, gFlips, gMix,
                   gApplied, gThrewAt, gFailed, gWarned, gResult>>
    /\ UNCHANGED nonGlitchVars

\* lines 216-250: if (mix[X]) applyX(pixels, ...), which returns
RunFilter ==
    /\ gEngine = "lib" /\ gPc = "filters"
    /\ IfChain[gIf] \in gMix
    /\ gApplied' = Append(gApplied, IfChain[gIf])
    /\ gIf' = gIf + 1
    /\ gPc' = AfterIf
    /\ UNCHANGED <<gEngine, gInput, gUseMix, gCharCount, gFlips, gMix,
                   gThrewAt, gFailed, gWarned, gResult>>
    /\ UNCHANGED nonGlitchVars

\* lines 216-250: if (mix[X]) applyX(pixels, ...), which raises an error
FilterThrows ==
    /\ gEngine = "lib" /\ gPc = "filters"
    /\ IfChain[gIf] \in gMix
    /\ gThrewAt' = "filter"
    /\ gFailed' = IfChain[gIf]
    /\ gIf' = gIf + 1
    /\ gPc' = FilterThrowPc
    /\ UNCHANGED <<gEngine, gInput, gUseMix, gCharCount, gFlips, gMix,
                   gApplied, gWarned, gResult>>
    /\ UNCHANGED nonGlitchVars

\* lines 252-283: metadata, logger.info, and the PNG of pixels is returned
Encode ==
    /\ gEngine = "lib" /\ gPc = "encode"
    /\ gResult' = Resolved(Encoded(gApplied))
    /\ gPc' = "done"
    /\ UNCHANGED <<gEngine, gInput, gUseMix, gCharCount, gFlips, gMix, gIf,
                   gApplied, gThrewAt, gFailed, gWarned>>
    /\ UNCHANGED nonGlitchVars

\* lines 276-283: sharp fails to encode
EncodeThrows ==
    /\ gEngine = "lib" /\ gPc = "encode"
    /\ gThrewAt' = "encode"
    /\ gPc' = "catch"
    /\ UNCHANGED <<gEngine, gInput, gUseMix, gCharCount, gFlips, gMix, gIf,
                   gApplied, gFailed, gWarned, gResult>>
    /\ UNCHANGED nonGlitchVars

\* lines 285-288
Catch ==
    /\ gEngine = "lib" /\ gPc = "catch"
    /\ gWarned' = TRUE
    /\ gResult' = Resolved(CatchValue)
    /\ gPc' = "done"
    /\ UNCHANGED <<gEngine, gInput, gUseMix, gCharCount, gFlips, gMix, gIf,
                   gApplied, gThrewAt, gFailed>>
    /\ UNCHANGED nonGlitchVars

(* applyGlitchEffects of generate.js *)

\* generate.js lines 418-430: ENABLE_GLITCH_EFFECTS is true; glitchParams
GenStart ==
    /\ gEngine = "generate" /\ gPc = "validate"
    /\ gPc' = "decode"
    /\ UNCHANGED <<gEngine, gInput, gUseMix, gCharCount, gFlips, gMix, gIf,
                   gApplied, gThrewAt, gFailed, gWarned, gResult>>
    /\ UNCHANGED nonGlitchVars

\* generate.js lines 433-438
GenDecode ==
    /\ gEngine = "generate" /\ gPc = "decode"
    /\ gInput.decodable
    /\ gApplied' = <<>>
    /\ gPc' = "scanline"
    /\ UNCHANGED <<gEngine, gInput, gUseMix, gCharCount, gFlips, gMix, gIf,
                   gThrewAt, gFailed, gWarned, gResult>>
    /\ UNCHANGED nonGlitchVars

GenDecodeThrows ==
    /\ gEngine = "generate" /\ gPc = "decode"
    /\ ~gInput.decodable
    /\ gThrewAt' = "decode"
    /\ gPc' = "catch"
    /\ UNCHANGED <<gEngine, gInput, gUseMix, gCharCount, gFlips, gMix, gIf,
                   gApplied, gFailed, gWarned, gResult>>
    /\ UNCHANGED nonGlitchVars

\* scanLineIntensity = Math.min((charCount % 7) / 20, 0.3) > 0
ScanLineIntensityPositive(charCount) == charCount % 7 > 0

\* generate.js lines 441-471: scan line displacement
GenScanLines ==
    /\ gEngine = "generate" /\ gPc = "scanline"
    /\ gApplied' = IF ScanLineIntensityPositive(gCharCount)
                   THEN Append(gApplied, "scan_line_displacement")
                   ELSE gApplied
    /\ gPc' = "noise"
    /\ UNCHANGED <<gEngine, gInput, gUseMix, gCharCount, gFlips, gMix, gIf,
                   gThrewAt, gFailed, gWarned, gResult>>
    /\ UNCHANGED nonGlitchVars

\* generate.js lines 474-485: noiseSparsity = 0.998 + (charCount % 3) / 1000
\* is always below 1
GenNoise ==
    /\ gEngine = "generate" /\ gPc = "noise"
    /\ gApplied' = Append(gApplied, "sparse_noise")
    /\ gPc' = "encode"
    /\ UNCHANGED <<gEngine, gInput, gUseMix, gCharCount, gFlips, gMix, gIf,
                   gThrewAt, gFailed, gWarned, gResult>>
    /\ UNCHANGED nonGlitchVars

\* generate.js lines 488-496
GenEncode ==
    /\ gEngine = "generate" /\ gPc = "encode"
    /\ gResult' = Resolved(Encoded(gApplied))
    /\ gPc' = "done"
    /\ UNCHANGED <<gEngine, gInput, gUseMix, gCharCount, gFlips, gMix, gIf,
                   gApplied, gThrewAt, gFailed, gWarned>>
    /\ UNCHANGED nonGlitchVars

GenEncodeThrows ==
    /\ gEngine = "generate" /\ gPc = "encode"
    /\ gThrewAt' = "encode"
    /\ gPc' = "catch"
    /\ UNCHANGED <<gEngine, gInput, gUseMix, gCharCount, gFlips, gMix, gIf,
                   gApplied, gFailed, gWarned, gResult>>
    /\ UNCHANGED nonGlitchVars

\* generate.js lines 497-500
GenCatch ==
    /\ gEngine = "generate" /\ gPc = "catch"
    /\ gWarned' = TRUE
    /\ gResult' = Resolved(CatchValue)
    /\ gPc' = "done"
    /\ UNCHANGED <<gEngine, gInput, gUseMix, gCharCount, gFlips, gMix, gIf,
                   gApplied, gThrewAt, gFailed>>
    /\ UNCHANGED nonGlitchVars

Next ==
    \/ ValidateThrows
    \/ ValidateOk
    \/ Decode
    \/ DecodeThrows
    \/ SelectMix
    \/ SkipFilter
    \/ RunFilter
    \/ FilterThrows
    \/ Encode
    \/ EncodeThrows
    \/ Catch
    \/ GenStart
    \/ GenDecode
    \/ GenDecodeThrows
    \/ GenScanLines
    \/ GenNoise
    \/ GenEncode
    \/ GenEncodeThrows
    \/ GenCatch

-----------------------------------------------------------------------------
(* applyPixelSortH, applyPixelSortV *)

\* Math.floor(n * 0.3) and Math.floor(n * 0.7), exact for the sizes modelled
Floor30(n) == (n * 3) \div 10
Floor70(n) == (n * 7) \div 10

\* pixels[k], undefined (here -1) beyond the end of the typed array
Sample(buf, k) == IF k >= 0 /\ k < Len(buf) THEN buf[k + 1] ELSE -1

\* pixels[idx + 3] || 255
AlphaOr255(buf, k) == IF Sample(buf, k) <= 0 THEN 255 ELSE Sample(buf, k)

\* [pixels[idx], pixels[idx + 1], pixels[idx + 2], pixels[idx + 3] || 255]
PixelAt(buf, idx) ==
    <<Sample(buf, idx), Sample(buf, idx + 1), Sample(buf, idx + 2),
      AlphaOr255(buf, idx + 3)>>

\* a[0] + a[1] + a[2]
Brightness(px) == px[1] + px[2] + px[3]

\* the comparator: sortDirection * (brightness(a) - brightness(b))
Compare(a, b, sortDirection) == sortDirection * (Brightness(a) - Brightness(b))

\* Array.prototype.sort is stable: an element goes behind every element
\* that does not compare greater than it
RECURSIVE InsertSorted(_, _, _)
InsertSorted(sorted, px, sortDirection) ==
    IF sorted = <<>> THEN <<px>>
    ELSE IF Compare(sorted[Len(sorted)], px, sortDirection) <= 0
         THEN Append(sorted, px)
         ELSE Append(InsertSorted(SubSeq(sorted, 1, Len(sorted) - 1), px,
                                  sortDirection),
                     sorted[Len(sorted)])

RECURSIVE SortLine(_, _)
SortLine(line, sortDirection) ==
    IF line = <<>> THEN <<>>
    ELSE InsertSorted(SortLine(SubSeq(line, 1, Len(line) - 1), sortDirection),
                      line[Len(line)], sortDirection)

WriteBackIndexOffByOne(pos, start, n) ==
    IF pos - start + 1 < n THEN pos - start + 1 ELSE n - 1

\* linePixels[x - startX] (linePixels[y - startY]): the element written to
\* position pos of a segment of n pixels starting at start
WriteBackIndex(pos, start, n) == pos - start

WritesChannelWithAlpha(c) == c < 4

\* the write-back assigns pixels[idx], pixels[idx + 1], pixels[idx + 2]
WritesChannel(c) == c < 3

\* the index of the first sample of the pixel at position pos of the line
\* (row y for the horizontal sort, column x for the vertical one)
LineIdx(dir, line, pos, width, channels) ==
    IF dir = "H" THEN (line * width + pos) * channels
    ELSE (pos * width + line) * channels

\* one iteration of the loop: extract the segment [start, end) of the line,
\* sort it, put it back
SortSegment(buf, dir, line, start, end, sortDirection, width, channels) ==
    LET n == end - start
        linePixels == [k \in 1..n |->
                          PixelAt(buf, LineIdx(dir, line, start + k - 1,
                                               width, channels))]
        sorted == SortLine(linePixels, sortDirection)
        Written(k) ==
            \* the value the write-back loop leaves in sample k
            LET px == k \div channels
                c == k % channels
                x == px % width
                y == px \div width
                pos == IF dir = "H" THEN x ELSE y
                onLine == IF dir = "H" THEN y = line ELSE x = line
            IN  IF onLine /\ pos >= start /\ pos < end /\ WritesChannel(c)
                THEN sorted[WriteBackIndex(pos, start, n) + 1][c + 1]
                ELSE buf[k + 1]
    IN  [k \in 1..Len(buf) |-> Written(k - 1)]

\* the colours of the test images; two of them are equally bright
Palette == <<(<<0, 0, 0>>), (<<200, 10, 10>>), (<<10, 200, 10>>),
             (<<255, 255, 255>>)>>
\* their alpha samples
Alphas == <<0, 128, 255>>

\* an image of width x height pixels: pixel p has colour a * p + b of the
\* palette and, with four channels, alpha p of Alphas
TestImage(width, height, channels, a, b) ==
    [k \in 1..(width * height * channels) |->
        LET px == (k - 1) \div channels
            c == (k - 1) % channels
        IN  IF c < 3 THEN Palette[((a * px + b) % Len(Palette)) + 1][c + 1]
            ELSE Alphas[(px % Len(Alphas)) + 1]]

\* the images sorted: a wide one by applyPixelSortH, a tall one by
\* applyPixelSortV
SortInputs == {[todo |-> <<"H">>, width |-> MaxSide, height |-> 2],
               [todo |-> <<"V">>, width |-> 2, height |-> MaxSide]}

NoSeg == [dir |-> "none", line |-> 0, start |-> 0, end |-> 0]

InitSort ==
    /\ \E in \in SortInputs :
          sTodo = in.todo /\ sWidth = in.width /\ sHeight = in.height
    /\ \E img \in {[channels |-> 3, a |-> 1, b |-> 0],
                     [channels |-> 4, a |-> 3, b |-> 1]} :
          /\ sChannels = img.channels
          /\ sPixels = TestImage(sWidth, sHeight, sChannels, img.a, img.b)
    /\ sOrig = sPixels
    /\ sPc = "idle"
    /\ sLines = 0 /\ sI = 0
    /\ sSeg = NoSeg

\* no pixel sort is modelled
SortIdle ==
    /\ sWidth = 1 /\ sHeight = 1 /\ sChannels = 3
    /\ sPixels = <<0, 0, 0>> /\ sOrig = sPixels
    /\ sTodo = <<>> /\ sPc = "idle" /\ sLines = 0 /\ sI = 0 /\ sSeg = NoSeg

\* applyPixelSortH is called: sortLines = chance.integer({ min: 3, max: 8 })
BeginSortH ==
    /\ sPc = "idle" /\ sTodo # <<>> /\ Head(sTodo) = "H"
    /\ sLines' \in {n \in 3..8 : n <= MaxSortLines \/ n = 3}
    /\ sI' = 0
    /\ sPc' = "sortH"
    /\ sTodo' = Tail(sTodo)
    /\ UNCHANGED <<sWidth, sHeight, sChannels, sPixels, sOrig, sSeg>>
    /\ UNCHANGED nonSortVars

\* one iteration of the loop of applyPixelSortH
SortHLine ==
    /\ sPc = "sortH" /\ sI < sLines
    /\ \E y \in 0..(sHeight - 1),
          startX \in 0..Floor30(sWidth),
          endX \in Floor70(sWidth)..sWidth,
          sortDirection \in {1, -1} :
          /\ sPixels' = SortSegment(sPixels, "H", y, startX, endX,
                                    sortDirection, sWidth, sChannels)
          /\ sSeg' = [dir |-> "H", line |-> y, start |-> startX, end |-> endX]
    /\ sI' = sI + 1
    /\ UNCHANGED <<sWidth, sHeight, sChannels, sOrig, sTodo, sPc, sLines>>
    /\ UNCHANGED nonSortVars

\* applyPixelSortH (applyPixelSortV) returns
EndSort ==
    /\ sPc \in {"sortH", "sortV"} /\ sI = sLines
    /\ sPc' = IF sTodo = <<>> THEN "done" ELSE "idle"
    /\ UNCHANGED <<sWidth, sHeight, sChannels, sPixels, sOrig, sTodo, sLines,
                   sI, sSeg>>
    /\ UNCHANGED nonSortVars

\* applyPixelSortV is called: sortLines = chance.integer({ min: 2, max: 5 })
BeginSortV ==
    /\ sPc = "idle" /\ sTodo # <<>> /\ Head(sTodo) = "V"
    /\ sLines' \in {n \in 2..5 : n <= MaxSortLines}
    /\ sI' = 0
    /\ sPc' = "sortV"
    /\ sTodo' = Tail(sTodo)
    /\ UNCHANGED <<sWidth, sHeight, sChannels, sPixels, sOrig, sSeg>>
    /\ UNCHANGED nonSortVars

\* one iteration of the loop of applyPixelSortV
SortVLine ==
    /\ sPc = "sortV" /\ sI < sLines
    /\ \E x \in 0..(sWidth - 1),
          startY \in 0..Floor30(sHeight),
          endY \in Floor70(sHeight)..sHeight,
          sortDirection \in {1, -1} :
          /\ sPixels' = SortSegment(sPixels, "V", x, startY, endY,
                                    sortDirection, sWidth, sChannels)
          /\ sSeg' = [dir |-> "V", line |-> x, start |-> startY, end |-> endY]
    /\ sI' = sI + 1
    /\ UNCHANGED <<sWidth, sHeight, sChannels, sOrig, sTodo, sPc, sLines>>
    /\ UNCHANGED nonSortVars

NextSort ==
    \/ BeginSortH
    \/ SortHLine
    \/ BeginSortV
    \/ SortVLine
    \/ EndSort



-----------------------------------------------------------------------------
(* applyColorShift: applyHueRotatePerlin, applyLuminancePerlin,            *)
(* applySaturationPerlin                                                   *)

Strategies == {"hue_rotate_perlin", "luminance_perlin", "saturation_perlin"}

\* chance.floating({ min, max }) has four decimals: the thresholds a seed
\* can give, in units of 1/10000, are min*10000 .. max*10000.  The least,
\* the greatest and one in between are drawn.
Thresholds(strategy) ==
    CASE strategy = "hue_rotate_perlin" -> {2000, 5000, 8000}
      [] strategy = "saturation_perlin" -> {2000, 4000, 6000}
      [] strategy = "luminance_perlin"  -> {4000, 5000, 8000}

MaskGateInclusive(noiseValue, threshold) == noiseValue >= threshold

\* if (noiseValue > threshold)
MaskGate(noiseValue, threshold) == noiseValue > threshold

\* the colours rgbToHsl, the shift and hslToRgb can turn (r, g, b) into.
\* The floating-point conversion is not computed: it may give the colour
\* back (a grey under hue rotation) or another colour.
ShiftedColours(rgb) == {rgb, <<255, 128, 0>>, <<64, 64, 64>>}

\* pixels[pixelIndex], [pixelIndex + 1], [pixelIndex + 2] = r, g, b
WritePixel(buf, pixelIndex, rgb) ==
    [k \in 1..Len(buf) |->
        IF k - 1 >= pixelIndex /\ k - 1 <= pixelIndex + 2
        THEN rgb[k - pixelIndex]
        ELSE buf[k]]

\* mask values, in units of 1/10000; generateMask can leave [0,1] slightly
MaskSamples == <<0, 2000, 4001, 8000, 10400, -300, 5000, 6000>>

\* the masks: all zero, or pixel p has sample p + shift of MaskSamples
ZeroMask(n) == [k \in 1..n |-> 0]
RampMask(n, shift) ==
    [k \in 1..n |-> MaskSamples[((k - 1 + shift) % Len(MaskSamples)) + 1]]

\* a mid-grey image: every colour sample 128, every alpha sample 200
GreyImage(width, height, channels) ==
    [k \in 1..(width * height * channels) |->
        IF (k - 1) % channels < 3 THEN 128 ELSE 200]

InitColor ==
    /\ cWidth = MaxColorWidth /\ cHeight = 2
    /\ cChannels \in {3, 4}
    /\ cPixels \in {GreyImage(cWidth, cHeight, cChannels),
                    TestImage(cWidth, cHeight, cChannels, 1, 1)}
    /\ cOrig = cPixels
    /\ cMask \in {ZeroMask(cWidth * cHeight)}
                 \cup {RampMask(cWidth * cHeight, sh) : sh \in {0, 2, 4}}
    /\ cStrategy = "none" /\ cThreshold = 0
    /\ cPc = "start" /\ cY = 0 /\ cX = 0

\* no colour shift is modelled
ColorIdle ==
    /\ cWidth = 1 /\ cHeight = 1 /\ cChannels = 3
    /\ cPixels = <<0, 0, 0>> /\ cOrig = cPixels /\ cMask = <<0>>
    /\ cStrategy = "none" /\ cThreshold = 0
    /\ cPc = "start" /\ cY = 0 /\ cX = 0

\* lines 408-426 and the draws that open the strategy (431-432, 571-572,
\* 601): strategy = chance.pickone([...]); threshold = chance.floating(...)
PickStrategy ==
    /\ cPc = "start"
    /\ \E st \in Strategies :
          /\ cStrategy' = st
          /\ cThreshold' \in Thresholds(st)
    /\ cPc' = IF cHeight > 0 /\ cWidth > 0 THEN "loop" ELSE "done"
    /\ cY' = 0 /\ cX' = 0
    /\ UNCHANGED <<cWidth, cHeight, cChannels, cPixels, cOrig, cMask>>
    /\ UNCHANGED nonColorVars

\* the loop variables after the body has run for (cX, cY)
NextX == IF cX + 1 < cWidth THEN cX + 1 ELSE 0
NextY == IF cX + 1 < cWidth THEN cY ELSE cY + 1
LoopDone == ~(cX + 1 < cWidth) /\ ~(cY + 1 < cHeight)

\* one pass through the body of the loops over y and x (434-455, 574-596,
\* 603-623), the same in the three strategies
ShiftPixel ==
    /\ cPc = "loop"
    /\ LET pixelIndex == (cY * cWidth + cX) * cChannels
           maskIndex == cY * cWidth + cX
           noiseValue == cMask[maskIndex + 1]
           rgb == <<cPixels[pixelIndex + 1], cPixels[pixelIndex + 2],
                    cPixels[pixelIndex + 3]>>
       IN  IF MaskGate(noiseValue, cThreshold)
           THEN \E new \in ShiftedColours(rgb) :
                   cPixels' = WritePixel(cPixels, pixelIndex, new)
           ELSE cPixels' = cPixels
    /\ cX' = NextX
    /\ cY' = NextY
    /\ cPc' = IF LoopDone THEN "done" ELSE "loop"
    /\ UNCHANGED <<cWidth, cHeight, cChannels, cOrig, cMask, cStrategy,
                   cThreshold>>
    /\ UNCHANGED nonColorVars

NextColor ==
    \/ PickStrategy
    \/ ShiftPixel

-----------------------------------------------------------------------------
(* PerlinNoise                                                             *)
(*                                                                         *)
(* Coordinates are multiples of 1/4, so every number of noise and          *)
(* generateMask is a dyadic rational that a double holds exactly, and is   *)
(* kept here as an integer numerator: coordinates and gradients over       *)
(* CoordUnit, fade over FadeUnit, noise over NoiseUnit, the octave sum     *)
(* over ValueUnit, mask values over MaskUnit.                              *)

RECURSIVE Pow2(_)
Pow2(n) == IF n = 0 THEN 1 ELSE 2 * Pow2(n - 1)

CoordUnit == 4
FadeUnit == CoordUnit * CoordUnit * CoordUnit * CoordUnit * CoordUnit
NoiseUnit == CoordUnit * FadeUnit * FadeUnit
\* amplitude of octave o is 1 / 2^o = Pow2(MaxOctaves - 1 - o) / AmpUnit
AmpUnit == Pow2(MaxOctaves - 1)
ValueUnit == NoiseUnit * AmpUnit
MaskUnit == 2 * ValueUnit

\* Array.from({length: 256}, (_, i) => i)
Identity == [k \in 1..PermSize |-> k - 1]

\* [p[i], p[j]] = [p[j], p[i]]
SwapInTurn(p, i, j) == [k \in 1..Len(p) |-> IF k = i + 1 THEN p[j + 1] ELSE p[k]]
Swap(p, i, j) ==
    [k \in 1..Len(p) |->
        IF k = i + 1 THEN p[j + 1] ELSE IF k = j + 1 THEN p[i + 1] ELSE p[k]]

\* fade(t) = t*t*t*(t*(t*6 - 15) + 10) for t = k/CoordUnit, over FadeUnit:
\* (k/4)^3 * (6(k/4)^2 - 15(k/4) + 10) = k^3 (6k^2 - 60k + 160) / 4^5
fade(k) == k * k * k * (k * (k * 6 - 15 * CoordUnit) + 10 * CoordUnit * CoordUnit)

\* lerp(a, b, t) = a + t*(b - a), t over FadeUnit: the result is over
\* FadeUnit times the unit of a and b
lerp(a, b, t) == a * FadeUnit + t * (b - a)

\* grad(hash, x, y)
grad(hash, x, y) ==
    LET h == hash % 16
        u == IF h < 8 THEN x ELSE y
        v == IF h < 4 THEN y ELSE IF h = 12 \/ h = 14 THEN x ELSE 0
    IN  (IF h % 2 = 0 THEN u ELSE 0 - u)
        + (IF (h \div 2) % 2 = 0 THEN v ELSE 0 - v)

\* this.permutation[k]
Perm(table, k) == table[k + 1]

\* n & 255 for an integer n: the low bits of the two's complement, never
\* negative (n % 256 would keep the sign of n)
Remainder255(n) == IF n < 0 THEN 0 - ((0 - n) % PermSize) ELSE n % PermSize
And255(n) == n % PermSize

\* the table indices noise reads at (xq/CoordUnit, yq/CoordUnit):
\* X, X + 1, A, A + 1, B, B + 1, AA, AB, BA, BB
NoiseReads(table, xq, yq) ==
    LET X == And255(xq \div CoordUnit)
        Y == And255(yq \div CoordUnit)
        A == Sample(table, X) + Y
        B == Sample(table, X + 1) + Y
    IN  <<X, X + 1, A, A + 1, B, B + 1, Sample(table, A), Sample(table, A + 1),
          Sample(table, B), Sample(table, B + 1)>>

\* noise(x, y) at (xq/CoordUnit, yq/CoordUnit), over NoiseUnit
noise(table, xq, yq) ==
    LET X == (xq \div CoordUnit) % PermSize
        Y == (yq \div CoordUnit) % PermSize
        x == xq - CoordUnit * (xq \div CoordUnit)
        y == yq - CoordUnit * (yq \div CoordUnit)
        u == fade(x)
        v == fade(y)
        A == Perm(table, X) + Y
        AA == Perm(table, A)
        AB == Perm(table, A + 1)
        B == Perm(table, X + 1) + Y
        BA == Perm(table, B)
        BB == Perm(table, B + 1)
    IN  lerp(lerp(grad(Perm(table, AA), x, y),
                  grad(Perm(table, BA), x - CoordUnit, y), u),
             lerp(grad(Perm(table, AB), x, y - CoordUnit),
                  grad(Perm(table, BB), x - CoordUnit, y - CoordUnit), u),
             v)

\* the octave loop of generateMask for pixel (x, y), over ValueUnit:
\* value += noise(x * frequency, y * frequency) * amplitude;
\* amplitude *= 0.5; frequency *= 2
RECURSIVE OctaveSum(_, _, _, _, _, _)
OctaveSum(table, x, y, scale, octaves, octave) ==
    IF octave >= octaves THEN 0
    ELSE noise(table, x * scale * Pow2(octave), y * scale * Pow2(octave))
             * (AmpUnit \div Pow2(octave))
         + OctaveSum(table, x, y, scale, octaves, octave + 1)

\* the number of binary digits of a > 0
RECURSIVE Bits(_)
Bits(a) == IF a = 0 THEN 0 ELSE 1 + Bits(a \div 2)

\* storing into a Float32Array keeps 24 significant binary digits, rounding
\* to nearest, ties to the even significand
Float32(n) ==
    LET a == IF n < 0 THEN 0 - n ELSE n
        step == IF Bits(a) <= 24 THEN 1 ELSE Pow2(Bits(a) - 24)
        q == a \div step
        r == a % step
        up == 2 * r > step \/ (2 * r = step /\ q % 2 = 1)
        m == (IF up THEN q + 1 ELSE q) * step
    IN  IF n < 0 THEN 0 - m ELSE m

\* mask[y * width + x] = (value + 1) * 0.5, over MaskUnit
MaskValue(value) == Float32(value + ValueUnit)

\* new Float32Array(width * height)
ZeroFloats(n) == [k \in 1..n |-> 0]

InitPerlin ==
    /\ pP = Identity /\ pI = PermSize - 1
    /\ pTable = <<>> /\ pPc = "shuffle"
    /\ mWidth = 0 /\ mHeight = 0 /\ mScale = 0 /\ mOctaves = 0
    /\ mMask = <<>> /\ mY = 0 /\ mX = 0

\* no noise is modelled
PerlinIdle ==
    /\ pP = <<>> /\ pI = 0 /\ pTable = <<>> /\ pPc = "idle"
    /\ mWidth = 0 /\ mHeight = 0 /\ mScale = 0 /\ mOctaves = 0
    /\ mMask = <<>> /\ mY = 0 /\ mX = 0

maskVars == <<mWidth, mHeight, mScale, mOctaves, mMask, mY, mX>>

\* one pass of the Fisher-Yates loop: j = chance.integer({min: 0, max: i})
\* is whatever the seed gives in 0..i
ShuffleStep ==
    /\ pPc = "shuffle" /\ pI > 0
    /\ \E j \in 0..pI : pP' = Swap(pP, pI, j)
    /\ pI' = pI - 1
    /\ UNCHANGED <<pTable, pPc>>
    /\ UNCHANGED maskVars
    /\ UNCHANGED nonPerlinVars

\* the loop is over: return [...p, ...p]
ReturnPermutation ==
    /\ pPc = "shuffle" /\ ~(pI > 0)
    /\ pTable' = pP \o pP
    /\ pPc' = "built"
    /\ UNCHANGED <<pP, pI>>
    /\ UNCHANGED maskVars
    /\ UNCHANGED nonPerlinVars

\* generateMask(width, height, scale, octaves) is called
GenerateMask ==
    /\ pPc = "built"
    /\ mWidth' = MaxMaskSide
    /\ mHeight' \in {1, MaxMaskSide}
    /\ mScale' \in {1, 2}
    /\ mOctaves' \in 1..MaxOctaves
    /\ mMask' = ZeroFloats(mWidth' * mHeight')
    /\ mY' = 0 /\ mX' = 0
    /\ pPc' = "mask"
    /\ UNCHANGED <<pP, pI, pTable>>
    /\ UNCHANGED nonPerlinVars

\* one pass through the body of the loops over y and x
MaskPixel ==
    /\ pPc = "mask"
    /\ LET value == OctaveSum(pTable, mX, mY, mScale, mOctaves, 0)
       IN  mMask' = [mMask EXCEPT ![mY * mWidth + mX + 1] = MaskValue(value)]
    /\ mX' = IF mX + 1 < mWidth THEN mX + 1 ELSE 0
    /\ mY' = IF mX + 1 < mWidth THEN mY ELSE mY + 1
    /\ pPc' = IF ~(mX + 1 < mWidth) /\ ~(mY + 1 < mHeight)
              THEN "done" ELSE "mask"
    /\ UNCHANGED <<pP, pI, pTable, mWidth, mHeight, mScale, mOctaves>>
    /\ UNCHANGED nonPerlinVars

NextPerlin ==
    \/ ShuffleStep
    \/ ReturnPermutation
    \/ GenerateMask
    \/ MaskPixel

-----------------------------------------------------------------------------
(* Chance: a generator seeded with a number                                *)
(*                                                                         *)
(* new Chance(seed) starts a Mersenne Twister: what it returns is a fixed  *)
(* function of the seed and of the number of draws made before.  The       *)
(* outputs for the seed in play are the sequence mtStream, chosen when the *)
(* behaviour starts and never changed; a generator is its position in      *)
(* that sequence, and a position past the end wraps around.                *)

\* this.random() is raw / RandomUnit, for a raw in 0..RandomUnit - 1
RandomUnit == 100

\* the raw outputs the streams are made of
Raws == {5, 20, 45, 70, 95}

Streams == [1..StreamLen -> Raws]

\* this.random() of the generator that has made pos draws
Random(stream, pos) == stream[(pos % Len(stream)) + 1]

\* chance.bool({ likelihood: num / den }): this.random() * 100 < likelihood
ChanceBoolInclusive(raw, num, den) == raw * 100 * den <= num * RandomUnit
ChanceBool(raw, num, den) == raw * 100 * den < num * RandomUnit

\* chance.integer({ min, max }):
\* Math.floor(this.random() * (max - min + 1) + min)
ChanceInteger(raw, min, max) == min + (raw * (max - min + 1)) \div RandomUnit

\* chance.floating({ min, max }), fixed: 4, in units of 1/10000:
\* this.integer({ min: min * 10000, max: max * 10000 }) / 10000
ChanceFloating(raw, min, max) == ChanceInteger(raw, min, max)

\* chance.pickone(arr): arr[this.natural({ max: arr.length - 1 })]
ChancePickone(raw, arr) == arr[ChanceInteger(raw, 0, Len(arr) - 1) + 1]

RECURSIVE SumTo(_, _)
SumTo(weights, k) == IF k = 0 THEN 0 ELSE weights[k] + SumTo(weights, k - 1)

\* chance.weighted(arr, weights), all weights positive: selected =
\* this.random() * sum; the first entry whose running total reaches selected
ChanceWeighted(raw, arr, weights) ==
    LET sum == SumTo(weights, Len(weights))
        reached == {k \in 1..Len(arr) :
                       raw * sum <= SumTo(weights, k) * RandomUnit}
    IN  arr[CHOOSE k \in reached : \A m \in reached : k <= m]

\* a request for one draw, and the value it gives: booleans are 1 and 0
Integer(min, max) == [kind |-> "integer", a |-> min, b |-> max]
Floating(min, max) == [kind |-> "floating", a |-> min, b |-> max]
Bool(num, den) == [kind |-> "bool", a |-> num, b |-> den]

Value(req, raw) ==
    CASE req.kind = "integer"  -> ChanceInteger(raw, req.a, req.b)
      [] req.kind = "floating" -> ChanceFloating(raw, req.a, req.b)
      [] req.kind = "bool"     -> IF ChanceBool(raw, req.a, req.b) THEN 1 ELSE 0

\* the values of the requests reqs, drawn one after the other from the
\* generator at position pos
Values(stream, pos, reqs) ==
    [k \in 1..Len(reqs) |-> Value(reqs[k], Random(stream, pos + k - 1))]

-----------------------------------------------------------------------------
(* applyGlitchEffects of lib/pixel-glitch.js, called twice on the same     *)
(* decoded image and the same quote                                        *)

Runs == {1, 2}

\* { width, height, channels } of the decoded images
Infos == {[width |-> 20, height |-> 10, channels |-> 3],
          [width |-> 10, height |-> 20, channels |-> 4]}

\* Object.entries(effectWeights), in insertion order
EffectEntries ==
    <<"channel_shift", "pixel_sort_horizontal", "pixel_sort_vertical",
      "data_mosh", "color_shift", "scanlines", "noise", "interlace", "mirror">>

\* the coins of getGlitchMix, thrown one entry after the other with the
\* generator at position pos
SeededHeads(stream, pos) ==
    {EffectEntries[k] : k \in {m \in 1..Len(EffectEntries) :
        ChanceBool(Random(stream, pos + m - 1),
                   EffectWeights[EffectEntries[m]], 1)}}

\* generatePermutation with the generator of new PerlinNoise(seed)
RECURSIVE Shuffled(_, _, _, _)
Shuffled(p, i, stream, pos) ==
    IF i > 0
    THEN Shuffled(Swap(p, i, ChanceInteger(Random(stream, pos), 0, i)),
                  i - 1, stream, pos + 1)
    ELSE p

\* lines 187-206: scaleType, scale (in units of 1/10000) and octaves
ScaleTypes == <<"macro", "large", "medium">>
ScaleWeights == <<50, 40, 10>>
ScaleRange(scaleType) ==
    CASE scaleType = "macro"  -> Floating(1, 5)
      [] scaleType = "large"  -> Floating(5, 20)
      [] scaleType = "medium" -> Floating(20, 80)

\* the draws a filter makes before any draw that depends on a drawn value
FilterHeader(effect, info) ==
    CASE effect = "channel_shift" ->
             <<Floating(8000, 42000), Floating(5000, 38000), Bool(1, 2),
               Bool(1, 2), Bool(50, 1), Bool(50, 1), Integer(1, 3)>>
      [] effect = "pixel_sort_horizontal" -> <<Integer(3, 8)>>
      [] effect = "pixel_sort_vertical" -> <<Integer(2, 5)>>
      [] effect = "data_mosh" -> <<Integer(20, 100)>>
      [] effect = "scanlines" ->
             <<Integer(2, 6), Floating(3000, 8000), Integer(0, 3)>>
      [] effect = "interlace" -> <<>>
      [] effect = "noise" -> <<Integer(100, 500)>>
      [] effect = "color_shift" -> <<Integer(0, 2)>>
      [] effect = "mirror" ->
             <<Integer(Floor30(info.height), Floor70(info.height)),
               Bool(50, 1)>>

\* the draws that open the strategy applyColorShift picked
StrategyOrder ==
    <<"hue_rotate_perlin", "luminance_perlin", "saturation_perlin">>
StrategyRequests(strategy) ==
    CASE strategy = "hue_rotate_perlin" ->
             <<Integer(60, 180), Floating(2000, 8000)>>
      [] strategy = "luminance_perlin" -> <<Floating(4000, 8000)>>
      [] strategy = "saturation_perlin" ->
             <<Floating(3000, 7000), Floating(2000, 6000)>>

\* the draws that follow the header and are kept: those of the strategy
FilterRest(effect, vals) ==
    IF effect = "color_shift"
    THEN StrategyRequests(StrategyOrder[vals[1] + 1])
    ELSE <<>>

\* the number of draws the loops of a filter make: their values go into
\* the pixels, which the stream and the position decide
FilterLoopDraws(effect, info, vals) ==
    CASE effect = "channel_shift" -> 2 * vals[7]
      [] effect = "pixel_sort_horizontal" -> 4 * vals[1]
      [] effect = "pixel_sort_vertical" -> 4 * vals[1]
      [] effect = "data_mosh" -> 3 * vals[1]
      [] effect = "interlace" -> (info.height + 1) \div 2
      [] effect = "noise" -> 3 * vals[1]
      [] OTHER -> 0

NewChanceShared(other) == other

\* the position of a generator just made by new Chance(seed), whatever
\* position the generators of the other run have reached
NewChance(other) == 0

NoRun ==
    [pc |-> "start", chance |-> 0, table |-> <<>>, scale |-> <<>>,
     mix |-> {}, idx |-> 1, params |-> <<>>, out |-> <<>>]

InitRuns ==
    /\ mtStream \in Streams
    /\ tInfo \in Infos
    /\ tUseMix \in BOOLEAN
    /\ tRuns = [r \in Runs |-> NoRun]

\* no run is modelled
RunsIdle ==
    /\ mtStream = <<>> /\ tInfo = [width |-> 0, height |-> 0, channels |-> 0]
    /\ tUseMix = FALSE /\ tRuns = <<>>

Other(r) == 3 - r

\* lines 180-184: seed = hashString(quote.text); chance = new Chance(seed);
\* perlin = new PerlinNoise(seed), whose constructor shuffles with its own
\* new Chance(seed)
RunSeed(r) ==
    /\ tRuns[r].pc = "start"
    /\ LET start == NewChance(tRuns[Other(r)].chance)
           p == Shuffled(Identity, PermSize - 1, mtStream, start)
       IN  tRuns' = [tRuns EXCEPT ![r] =
                        [@ EXCEPT !.pc = "seeded", !.chance = start,
                                  !.table = p \o p]]
    /\ UNCHANGED <<mtStream, tInfo, tUseMix>>
    /\ UNCHANGED nonRunVars

\* lines 187-208: scaleType, scale, octaves, then generateMask, which
\* draws nothing: the mask is decided by the table, the size, scale, octaves
RunMask(r) ==
    /\ tRuns[r].pc = "seeded"
    /\ LET c == tRuns[r].chance
           scaleType == ChanceWeighted(Random(mtStream, c), ScaleTypes,
                                       ScaleWeights)
           scale == Value(ScaleRange(scaleType), Random(mtStream, c + 1))
           octaves == ChanceInteger(Random(mtStream, c + 2), 1, 2)
       IN  tRuns' = [tRuns EXCEPT ![r] =
                        [@ EXCEPT !.pc = "masked", !.chance = c + 3,
                                  !.scale = <<scaleType, scale, octaves>>]]
    /\ UNCHANGED <<mtStream, tInfo, tUseMix>>
    /\ UNCHANGED nonRunVars

\* lines 211-213: mix = useMix ? getGlitchMix(seed) : { color_shift };
\* getGlitchMix makes its own new Chance(seed)
RunMix(r) ==
    /\ tRuns[r].pc = "masked"
    /\ LET start == NewChance(tRuns[Other(r)].chance)
       IN  tRuns' = [tRuns EXCEPT ![r] =
                        [@ EXCEPT !.pc = "filters", !.idx = 1,
                                  !.mix = ChooseMix(tUseMix,
                                              SeededHeads(mtStream, start))]]
    /\ UNCHANGED <<mtStream, tInfo, tUseMix>>
    /\ UNCHANGED nonRunVars

\* an if-statement of lines 216-250 whose effect is in the mix: the filter
\* runs and draws from chance
RunApply(r) ==
    /\ tRuns[r].pc = "filters"
    /\ tRuns[r].idx <= Len(IfChain)
    /\ IfChain[tRuns[r].idx] \in tRuns[r].mix
    /\ LET effect == IfChain[tRuns[r].idx]
           c == tRuns[r].chance
           header == FilterHeader(effect, tInfo)
           vals == Values(mtStream, c, header)
           rest == FilterRest(effect, vals)
           more == Values(mtStream, c + Len(header), rest)
           drawn == Len(header) + Len(rest)
                        + FilterLoopDraws(effect, tInfo, vals)
       IN  tRuns' = [tRuns EXCEPT ![r] =
                        [@ EXCEPT !.idx = @ + 1, !.chance = c + drawn,
                                  !.params = Append(@,
                                      [effect |-> effect, at |-> c,
                                       values |-> vals \o more])]]
    /\ UNCHANGED <<mtStream, tInfo, tUseMix>>
    /\ UNCHANGED nonRunVars

\* an if-statement whose effect is not in the mix
RunSkip(r) ==
    /\ tRuns[r].pc = "filters"
    /\ tRuns[r].idx <= Len(IfChain)
    /\ IfChain[tRuns[r].idx] \notin tRuns[r].mix
    /\ tRuns' = [tRuns EXCEPT ![r] = [@ EXCEPT !.idx = @ + 1]]
    /\ UNCHANGED <<mtStream, tInfo, tUseMix>>
    /\ UNCHANGED nonRunVars

\* lines 276-283: the pixels are encoded.  What the filters wrote is
\* decided by the decoded image, the mask and what each filter drew.
RunEncode(r) ==
    /\ tRuns[r].pc = "filters"
    /\ tRuns[r].idx > Len(IfChain)
    /\ tRuns' = [tRuns EXCEPT ![r] =
                    [@ EXCEPT !.pc = "done",
                              !.out = <<tInfo, tRuns[r].table,
                                        tRuns[r].scale, tRuns[r].params>>]]
    /\ UNCHANGED <<mtStream, tInfo, tUseMix>>
    /\ UNCHANGED nonRunVars

NextRuns ==
    \E r \in Runs :
        \/ RunSeed(r)
        \/ RunMask(r)
        \/ RunMix(r)
        \/ RunApply(r)
        \/ RunSkip(r)
        \/ RunEncode(r)

-----------------------------------------------------------------------------
(* The key word of a quote and its crypto star: generateConstellation of   *)
(* generate.js (lines 153-172) and of lib/constellation.js (lines 64-79)   *)

\* words are sequences of character codes
WordCode == <<99, 111, 100, 101>>
WordCrows == <<99, 114, 111, 119, 115>>
WordHacker == <<104, 97, 99, 107, 101, 114>>
WordSystem == <<115, 121, 115, 116, 101, 109>>
Words == {WordCode, WordCrows, WordHacker, WordSystem}

RECURSIVE WordLists(_)
WordLists(n) ==
    IF n = 0
    THEN {<<>>}
    ELSE WordLists(n - 1)
             \cup {Append(l, w) : l \in {m \in WordLists(n - 1) : Len(m) = n - 1},
                                  w \in Words}

\* what doc.nouns().out('array') and doc.adjectives().out('array') give
NlpLists == WordLists(MaxWords)

Implementations == {"generate.js", "lib/constellation.js"}

\* templateBounds of the story and of the square template
StoryBounds == [width |-> 108, height |-> 192, isSquare |-> FALSE]
SquareBounds == [width |-> 108, height |-> 108, isSquare |-> TRUE]
\* a canvas narrower than the margins of the layouts
SmallBounds == [width |-> 30, height |-> 30, isSquare |-> FALSE]
OverlayBounds == {StoryBounds, SquareBounds, SmallBounds}

\* .filter(word => word.length > 4)
FilterLong(words) == SelectSeq(words, LAMBDA w : Len(w) > 4)

\* the comparator (a, b) => b.length - a.length
CompareLength(a, b) == Len(b) - Len(a)

\* where a stable sort puts w, which came after every word of sorted: behind
\* every word the comparator does not put after it
InsertWordUnstable(sorted, w) ==
    LET before == {k \in 1..Len(sorted) : CompareLength(sorted[k], w) < 0}
        n == Cardinality(before)
    IN  SubSeq(sorted, 1, n) \o <<w>> \o SubSeq(sorted, n + 1, Len(sorted))

InsertWord(sorted, w) ==
    LET before == {k \in 1..Len(sorted) : CompareLength(sorted[k], w) <= 0}
        n == Cardinality(before)
    IN  SubSeq(sorted, 1, n) \o <<w>> \o SubSeq(sorted, n + 1, Len(sorted))

\* Array.prototype.sort with that comparator: stable
RECURSIVE SortByLength(_)
SortByLength(words) ==
    IF words = <<>>
    THEN <<>>
    ELSE InsertWord(SortByLength(SubSeq(words, 1, Len(words) - 1)),
                    words[Len(words)])

\* [...nouns, ...adjectives].filter(...).sort(...)[0]; undefined is <<>>
First(words) == IF words = <<>> THEN <<>> ELSE words[1]
KeyWord(nouns, adjectives) == First(SortByLength(FilterLong(nouns \o adjectives)))

\* phi of lib/utils.js, in millionths
PhiMicro == 1618034

\* the crypto star of a key word.  Coordinates are in tenths of a pixel for
\* generate.js and in 1/10000 of a pixel for lib/constellation.js, radii in
\* 1/10000 of a pixel; kind and word stand for isCrypto and encodedWord.
CryptoStar(impl, keyWord, bounds) ==
    LET charCode == keyWord[1]
    IN  IF impl = "generate.js"
        THEN [x |-> ((charCode % (bounds.width - 20)) + 10) * 10,
              y |-> (((charCode * 3) % (bounds.height - 20)) + 10) * 10,
              radius |-> 5000, kind |-> "crypto", word |-> keyWord]
        ELSE [x |-> (charCode % bounds.width) * 10000,
              y |-> ((charCode * PhiMicro) % (bounds.height * 1000000))
                        \div 100,
              radius |-> 2500, kind |-> "crypto", word |-> <<>>]

\* if (keyWord) cryptoStars.push(...)
CryptoStars(impl, keyWord, bounds) ==
    IF keyWord # <<>> THEN <<CryptoStar(impl, keyWord, bounds)>> ELSE <<>>

InitKey ==
    /\ kImpl \in Implementations
    /\ kNouns \in NlpLists
    /\ kAdjectives \in NlpLists
    /\ kBounds \in {StoryBounds, SquareBounds}
    /\ kWords = <<>>
    /\ kStars = <<>>
    /\ kPc = "nlp"

\* no key word is being chosen
KeyIdle ==
    /\ kImpl = "" /\ kNouns = <<>> /\ kAdjectives = <<>>
    /\ kBounds = [width |-> 0, height |-> 0, isSquare |-> FALSE]
    /\ kWords = <<>> /\ kStars = <<>> /\ kPc = "idle"

\* [...nouns, ...adjectives]
KeySpread ==
    /\ kPc = "nlp"
    /\ kWords' = kNouns \o kAdjectives
    /\ kPc' = "filter"
    /\ UNCHANGED <<kImpl, kNouns, kAdjectives, kBounds, kStars>>
    /\ UNCHANGED nonKeyVars

KeyFilter ==
    /\ kPc = "filter"
    /\ kWords' = FilterLong(kWords)
    /\ kPc' = "sort"
    /\ UNCHANGED <<kImpl, kNouns, kAdjectives, kBounds, kStars>>
    /\ UNCHANGED nonKeyVars

KeySort ==
    /\ kPc = "sort"
    /\ kWords' = SortByLength(kWords)
    /\ kPc' = "star"
    /\ UNCHANGED <<kImpl, kNouns, kAdjectives, kBounds, kStars>>
    /\ UNCHANGED nonKeyVars

KeyStar ==
    /\ kPc = "star"
    /\ kStars' = CryptoStars(kImpl, First(kWords), kBounds)
    /\ kPc' = "done"
    /\ UNCHANGED <<kImpl, kNouns, kAdjectives, kBounds, kWords>>
    /\ UNCHANGED nonKeyVars

NextKey == KeySpread \/ KeyFilter \/ KeySort \/ KeyStar

-----------------------------------------------------------------------------
(* generateConstellation of generate.js and of lib/constellation.js,       *)
(* called twice on the same quote and the same templateBounds.  The        *)
(* functions are synchronous: the second call starts when the first has    *)
(* returned.                                                               *)

\* the outputs of the generator seeded with hashString(quote.text)
BaseStream == <<5, 20, 45, 60, 70, 85, 95>>
Rotate(s, k) == [i \in 1..Len(s) |-> s[((i - 1 + k) % Len(s)) + 1]]
OverlayStreams == {Rotate(BaseStream, k) : k \in 0..(Len(BaseStream) - 1)}

RECURSIVE Letters(_)
Letters(words) ==
    IF words = <<>> THEN 0 ELSE Len(Head(words)) + Letters(Tail(words))

\* the quote whose text is the given words with one space between them
QuoteOf(nouns, adjectives, verbs) ==
    LET words == nouns \o adjectives \o verbs
    IN  [wordCount |-> Len(words),
         charCount |-> Letters(words) + Len(words) - 1,
         nouns |-> nouns, adjectives |-> adjectives, verbs |-> verbs]

OverlayQuotes ==
    {QuoteOf(<<WordCode, WordCode>>, <<>>, <<>>),
     QuoteOf(<<WordSystem>>, <<WordHacker>>, <<>>),
     QuoteOf(<<WordCrows>>, <<WordCode>>, <<WordCode>>)}

\* lines 124-125
StarCount(quote) == ((quote.wordCount * 12) \div 10) + 3
ConnectionThreshold(quote) == (quote.charCount % 25) + 15

MathMax(a, b) == IF a > b THEN a ELSE b
MathMin(a, b) == IF a < b THEN a ELSE b

\* Math.round(x / baselineGrid) * baselineGrid for x = v / unit
SnapToGrid(v, unit) == 6 * ((v + 3 * unit) \div (6 * unit))

\* n / phi for the phi = 1.618034 of line 135, in 1/10000
OverPhi(n) == (n * 6180339) \div 1000

\* lines 139-146, in 1/10000 of a pixel
GoldenPoints(bounds) ==
    LET w == bounds.width
        h == bounds.height
    IN  <<[x |-> OverPhi(w), y |-> OverPhi(h)],
          [x |-> w * 10000 - OverPhi(w), y |-> OverPhi(h)],
          [x |-> OverPhi(w), y |-> h * 10000 - OverPhi(h)],
          [x |-> w * 10000 - OverPhi(w), y |-> h * 10000 - OverPhi(h)],
          [x |-> w * 5000, y |-> OverPhi(h)],
          [x |-> OverPhi(w), y |-> h * 5000]>>

\* lines 183-214: the star of iteration i, made with the generator at
\* position pos, and the position of the generator afterwards
PlaceStar(stream, pos, i, logoInfluence, bounds) ==
    LET asked == logoInfluence /\ i < 6
        golden == asked /\ ChanceBool(Random(stream, pos), 40, 1)
        p == IF asked THEN pos + 1 ELSE pos
    IN  IF golden
        THEN LET point == GoldenPoints(bounds)[i + 1]
                 dx == ChanceFloating(Random(stream, p), -5000, 5000)
                 dy == ChanceFloating(Random(stream, p + 1), -5000, 5000)
                 x == MathMax(4, MathMin(bounds.width - 4,
                                         SnapToGrid(point.x + dx * 6, 10000)))
                 y == MathMax(0, MathMin(bounds.height,
                                         SnapToGrid(point.y + dy * 6, 10000)))
             IN  [star |-> [x |-> x * 10, y |-> y * 10,
                            radius |-> ChanceFloating(Random(stream, p + 2),
                                                      3000, 7000),
                            kind |-> "star", word |-> <<>>],
                  chance |-> p + 3]
        ELSE LET fx == ChanceFloating(Random(stream, p), 0, 10000)
                 bottom == ChanceBool(Random(stream, p + 1), 70, 1)
                 fy == ChanceFloating(Random(stream, p + 2), 0, 10000)
                 x == SnapToGrid(40000 + fx * (bounds.width - 8), 10000)
                 y == IF bottom
                      THEN SnapToGrid(40000 * bounds.height
                                          + fy * 6 * bounds.height, 100000)
                      ELSE SnapToGrid(fy * 4 * bounds.height, 100000)
             IN  [star |-> [x |-> x * 10, y |-> y * 10,
                            radius |-> ChanceFloating(Random(stream, p + 3),
                                                      3000, 7000),
                            kind |-> "star", word |-> <<>>],
                  chance |-> p + 4]

\* line 229: .filter(word => word.length >= 3 && word.length <= 6)
FilterMedium(words) == SelectSeq(words, LAMBDA w : Len(w) >= 3 /\ Len(w) <= 6)

\* lines 228-230: the word the stars may spell
FormationWord(quote) ==
    First(SortByLength(FilterMedium(quote.nouns \o quote.adjectives
                                        \o quote.verbs)))

\* word.toUpperCase(), one character
ToUpperCase(c) == IF c >= 97 /\ c <= 122 THEN c - 32 ELSE c

\* letterPatterns[letter] of createWordFromStars, for the character code c
LetterPatterns(c) ==
    CASE c = 65 ->
           <<<<2, 7>>, <<1, 5>>, <<3, 5>>, <<0, 3>>,
             <<4, 3>>, <<1, 1>>, <<3, 1>>>>
    [] c = 66 ->
           <<<<0, 7>>, <<0, 5>>, <<0, 3>>, <<0, 1>>, <<2, 7>>, <<2, 5>>,
             <<2, 3>>, <<2, 1>>, <<4, 6>>, <<4, 4>>, <<4, 2>>>>
    [] c = 67 ->
           <<<<4, 6>>, <<2, 7>>, <<0, 5>>,
             <<0, 3>>, <<2, 1>>, <<4, 2>>>>
    [] c = 68 ->
           <<<<0, 7>>, <<0, 5>>, <<0, 3>>, <<0, 1>>, <<2, 7>>,
             <<2, 1>>, <<4, 6>>, <<4, 4>>, <<4, 2>>>>
    [] c = 69 ->
           <<<<0, 7>>, <<0, 5>>, <<0, 3>>, <<0, 1>>,
             <<4, 7>>, <<2, 5>>, <<4, 1>>>>
    [] c = 70 ->
           <<<<0, 7>>, <<0, 5>>, <<0, 3>>,
             <<0, 1>>, <<4, 7>>, <<2, 5>>>>
    [] c = 71 ->
           <<<<4, 6>>, <<2, 7>>, <<0, 5>>, <<0, 3>>,
             <<2, 1>>, <<4, 2>>, <<4, 4>>, <<3, 4>>>>
    [] c = 72 ->
           <<<<0, 7>>, <<0, 5>>, <<0, 3>>, <<0, 1>>, <<4, 7>>,
             <<4, 5>>, <<4, 3>>, <<4, 1>>, <<2, 5>>>>
    [] c = 73 ->
           <<<<1, 7>>, <<2, 7>>, <<3, 7>>, <<2, 5>>,
             <<2, 3>>, <<1, 1>>, <<2, 1>>, <<3, 1>>>>
    [] c = 74 ->
           <<<<0, 7>>, <<1, 7>>, <<2, 7>>, <<3, 7>>, <<2, 5>>,
             <<2, 3>>, <<2, 1>>, <<1, 1>>, <<0, 2>>>>
    [] c = 75 ->
           <<<<0, 7>>, <<0, 5>>, <<0, 3>>, <<0, 1>>,
             <<4, 7>>, <<2, 5>>, <<4, 1>>>>
    [] c = 76 ->
           <<<<0, 7>>, <<0, 5>>, <<0, 3>>,
             <<0, 1>>, <<2, 1>>, <<4, 1>>>>
    [] c = 77 ->
           <<<<0, 7>>, <<0, 5>>, <<0, 3>>, <<0, 1>>, <<1, 6>>, <<2, 5>>,
             <<3, 6>>, <<4, 7>>, <<4, 5>>, <<4, 3>>, <<4, 1>>>>
    [] c = 78 ->
           <<<<0, 7>>, <<0, 5>>, <<0, 3>>, <<0, 1>>, <<1, 6>>, <<2, 5>>,
             <<3, 4>>, <<4, 7>>, <<4, 5>>, <<4, 3>>, <<4, 1>>>>
    [] c = 79 ->
           <<<<2, 7>>, <<0, 5>>, <<0, 3>>,
             <<2, 1>>, <<4, 5>>, <<4, 3>>>>
    [] c = 80 ->
           <<<<0, 7>>, <<0, 5>>, <<0, 3>>, <<0, 1>>,
             <<2, 7>>, <<2, 5>>, <<4, 6>>, <<4, 4>>>>
    [] c = 81 ->
           <<<<2, 7>>, <<0, 5>>, <<0, 3>>, <<2, 1>>,
             <<4, 5>>, <<4, 3>>, <<3, 2>>>>
    [] c = 82 ->
           <<<<0, 7>>, <<0, 5>>, <<0, 3>>, <<0, 1>>, <<2, 7>>,
             <<2, 5>>, <<4, 6>>, <<4, 4>>, <<3, 2>>, <<4, 1>>>>
    [] c = 83 ->
           <<<<4, 6>>, <<2, 7>>, <<0, 5>>, <<2, 5>>,
             <<4, 3>>, <<2, 1>>, <<0, 2>>>>
    [] c = 84 ->
           <<<<0, 7>>, <<1, 7>>, <<2, 7>>, <<3, 7>>,
             <<4, 7>>, <<2, 5>>, <<2, 3>>, <<2, 1>>>>
    [] c = 85 ->
           <<<<0, 7>>, <<0, 5>>, <<0, 3>>, <<2, 1>>,
             <<4, 7>>, <<4, 5>>, <<4, 3>>>>
    [] c = 86 ->
           <<<<0, 7>>, <<0, 5>>, <<1, 3>>, <<2, 1>>,
             <<3, 3>>, <<4, 7>>, <<4, 5>>>>
    [] c = 87 ->
           <<<<0, 7>>, <<0, 5>>, <<0, 3>>, <<1, 1>>, <<2, 3>>,
             <<3, 1>>, <<4, 7>>, <<4, 5>>, <<4, 3>>>>
    [] c = 88 ->
           <<<<0, 7>>, <<1, 6>>, <<2, 5>>, <<3, 4>>, <<4, 3>>,
             <<3, 2>>, <<2, 1>>, <<1, 2>>, <<0, 1>>, <<4, 7>>>>
    [] c = 89 ->
           <<<<0, 7>>, <<1, 6>>, <<2, 5>>, <<3, 4>>,
             <<4, 7>>, <<2, 3>>, <<2, 1>>>>
    [] c = 90 ->
           <<<<0, 7>>, <<1, 7>>, <<2, 7>>, <<3, 7>>, <<4, 7>>, <<3, 6>>, <<2, 5>>,
             <<1, 4>>, <<0, 3>>, <<1, 2>>, <<2, 1>>, <<3, 1>>, <<4, 1>>>>
    [] OTHER -> <<>>

\* the points of the letters of word from the letter of index li on, each
\* with its letter and the index of the letter
RECURSIVE WordPoints(_, _)
WordPoints(word, li) ==
    IF li >= Len(word)
    THEN <<>>
    ELSE LET letter == ToUpperCase(word[li + 1])
             pattern == LetterPatterns(letter)
         IN  [k \in 1..Len(pattern) |->
                 [letter |-> letter, letterIndex |-> li,
                  x |-> pattern[k][1], y |-> pattern[k][2]]]
                 \o WordPoints(word, li + 1)

\* createWordFromStars, lines 52-109, with the generator at position pos
CreateWordFromStars(word, bounds, stream, pos) ==
    LET points == WordPoints(word, 0)
        startX == (bounds.width - Len(word) * 6) * 5
        startY == (bounds.height * 15) \div 10
    IN  [k \in 1..Len(points) |->
            [x |-> startX + points[k].letterIndex * 60 + points[k].x * 10,
             y |-> startY + points[k].y * 10,
             radius |-> ChanceFloating(Random(stream, pos + k - 1),
                                       3000, 5000),
             kind |-> "word", word |-> <<points[k].letter>>]]

\* lines 238-243, in tenths of a pixel
TextAnchorPoints(bounds) ==
    <<[x |-> bounds.width * 5, y |-> (bounds.height * 35) \div 10],
      [x |-> (bounds.width * 15) \div 10, y |-> (bounds.height * 55) \div 10],
      [x |-> (bounds.width * 85) \div 10, y |-> (bounds.height * 55) \div 10],
      [x |-> bounds.width * 5, y |-> (bounds.height * 75) \div 10]>>

Connection(a, b, isTextConnection) ==
    [x1 |-> a.x, y1 |-> a.y, x2 |-> b.x, y2 |-> b.y,
     isTextConnection |-> isTextConnection]

\* lines 246-270
SquareConnections(stars, bounds) ==
    LET originalStars == SelectSeq(stars, LAMBDA star : star.kind # "word")
        n == Len(originalStars)
    IN  [i \in 1..MathMin(n, 4) |->
            Connection(originalStars[i], TextAnchorPoints(bounds)[i], TRUE)]
        \o [i \in 1..MathMax(0, MathMin(n - 1, 3)) |->
               Connection(originalStars[i], originalStars[i + 1], FALSE)]

\* lines 275-280: distance < connectionThreshold, for coordinates that are
\* whole tenths of a pixel
WithinThresholdInclusive(a, b, threshold) ==
    (a.x - b.x) * (a.x - b.x) + (a.y - b.y) * (a.y - b.y)
        <= (threshold * 10) * (threshold * 10)

WithinThreshold(a, b, threshold) ==
    (a.x - b.x) * (a.x - b.x) + (a.y - b.y) * (a.y - b.y)
        < (threshold * 10) * (threshold * 10)

\* the pairs (i, j), i < j, in the order of the loops of lines 273-274
RECURSIVE PairsFrom(_, _, _)
PairsFrom(i, j, n) ==
    IF i > n
    THEN <<>>
    ELSE IF j > n
         THEN PairsFrom(i + 1, i + 2, n)
         ELSE <<<<i, j>>>> \o PairsFrom(i, j + 1, n)

\* lines 273-290
StoryConnections(stars, threshold) ==
    LET near == SelectSeq(PairsFrom(1, 2, Len(stars)),
                    LAMBDA pair : WithinThreshold(stars[pair[1]],
                                                  stars[pair[2]], threshold))
    IN  [k \in 1..Len(near) |->
            Connection(stars[near[k][1]], stars[near[k][2]], FALSE)]

-----------------------------------------------------------------------------
(* The layouts of lib/constellation.js.  Coordinates and radii are in      *)
(* 1/10000 of a pixel, angles in 1/10000 of a radian.                      *)

\* Math.sin and Math.cos in thousandths, by Bhaskara's formula
\* 16 x (pi - x) / (5 pi^2 - 4 x (pi - x)): within 0.003 of the sine
RECURSIVE MathSin(_)
MathSin(angle) ==
    LET a == angle % 62832
    IN  IF a > 31416
        THEN 0 - MathSin(a - 31416)
        ELSE LET p == (a * (31416 - a)) \div 100
             IN  (160 * p) \div ((49348022 - 4 * p) \div 100)

MathCos(angle) == MathSin(angle + 15708)

\* Math.sqrt(n) in 1/10000, between lo and hi
RECURSIVE SqrtBetween(_, _, _)
SqrtBetween(lo, hi, n) ==
    IF lo >= hi
    THEN lo
    ELSE LET mid == (lo + hi + 1) \div 2
         IN  IF mid * mid <= n
             THEN SqrtBetween(mid, hi, n)
             ELSE SqrtBetween(lo, mid - 1, n)

MathSqrt(n) == SqrtBetween(0, 46340, n * 100000000)

\* testRange(options.min > options.max, ...) of chance.integer, which
\* chance.floating calls: a RangeError is thrown
RangeError(min, max) == min > max

\* chance.floating({ min: 0, max: Math.PI * 2 })
DrawAngle(raw) == (raw * 628328) \div 1000

\* chance.floating({ min: Math.PI * 0.3, max: Math.PI * 1.2 })
DrawArcLength(raw) == (raw * 282753 + 9424778) \div 1000

\* a circle of the overlay
Star(x, y, radius) ==
    [x |-> x, y |-> y, radius |-> radius, kind |-> "star", word |-> <<>>]

\* what a layout gives: it returns its stars and lines, or it throws
LayoutReturns(stars, connections, chance) ==
    [pc |-> "done", stars |-> stars, connections |-> connections,
     chance |-> chance]
LayoutThrows(chance) ==
    [pc |-> "raised", stars |-> <<>>, connections |-> <<>>,
     chance |-> chance]

\* n stars drawn one after the other at least margin pixels from the edges
MarginStars(margin, n, bounds, stream, pos) ==
    [k \in 1..n |->
        Star(ChanceFloating(Random(stream, pos + 2 * k - 2), margin * 10000,
                            (bounds.width - margin) * 10000),
             ChanceFloating(Random(stream, pos + 2 * k - 1), margin * 10000,
                            (bounds.height - margin) * 10000),
             2500)]

\* a draw of MarginStars throws
MarginThrows(margin, bounds) ==
    \/ RangeError(margin, bounds.width - margin)
    \/ RangeError(margin, bounds.height - margin)

\* generateSimpleDots, lines 157-172
GenerateSimpleDots(bounds, stream, pos) ==
    LET starCount ==
            ((ChanceFloating(Random(stream, pos), 3000, 8000) * 15)
                 \div 10000)
                + ChanceInteger(Random(stream, pos + 1), 3, 12)
    IN  IF MarginThrows(5, bounds)
        THEN LayoutThrows(pos + 2)
        ELSE LayoutReturns(MarginStars(5, starCount, bounds, stream, pos + 2),
                           <<>>, pos + 2 + 2 * starCount)

\* generateRandomScatter, lines 175-190
GenerateRandomScatter(bounds, stream, pos) ==
    LET starCount ==
            ((ChanceFloating(Random(stream, pos), 4000, 7000) * 20)
                 \div 10000) + 5
    IN  IF MarginThrows(10, bounds)
        THEN LayoutThrows(pos + 1)
        ELSE LayoutReturns(MarginStars(10, starCount, bounds, stream,
                                       pos + 1),
                           <<>>, pos + 1 + 2 * starCount)

\* generateMinimalLines, lines 193-223
GenerateMinimalLines(bounds, stream, pos) ==
    LET starCount == ChanceInteger(Random(stream, pos), 3, 8)
        stars == MarginStars(15, starCount, bounds, stream, pos + 1)
    IN  IF MarginThrows(15, bounds)
        THEN LayoutThrows(pos + 1)
        ELSE LayoutReturns(stars,
                 [i \in 1..MathMin(2, starCount - 1) |->
                     Connection(stars[i], stars[i + 1], FALSE)],
                 pos + 1 + 2 * starCount)

\* the test of lines 244 and 273
KeptInside(star, bounds) ==
    /\ star.x > 50000 /\ star.x < (bounds.width - 5) * 10000
    /\ star.y > 50000 /\ star.y < (bounds.height - 5) * 10000

\* the clusters still to make of generateClusterPattern, lines 230-248:
\* the stars kept and the position of the generator afterwards
RECURSIVE Clusters(_, _, _, _)
Clusters(todo, bounds, stream, pos) ==
    IF todo = 0
    THEN [stars |-> <<>>, chance |-> pos]
    ELSE LET centerX == ChanceFloating(Random(stream, pos), 200000,
                                       (bounds.width - 20) * 10000)
             centerY == ChanceFloating(Random(stream, pos + 1), 200000,
                                       (bounds.height - 20) * 10000)
             starsInCluster == ChanceInteger(Random(stream, pos + 2), 3, 7)
             scattered ==
                 [i \in 1..starsInCluster |->
                     LET angle == DrawAngle(Random(stream, pos + 1 + 2 * i))
                         distance ==
                             ChanceFloating(Random(stream, pos + 2 + 2 * i),
                                            50000, 150000)
                     IN  Star(centerX + (MathCos(angle) * distance) \div 1000,
                              centerY + (MathSin(angle) * distance) \div 1000,
                              5000)]
             rest == Clusters(todo - 1, bounds, stream,
                              pos + 3 + 2 * starsInCluster)
         IN  [stars |-> SelectSeq(scattered,
                                  LAMBDA star : KeptInside(star, bounds))
                            \o rest.stars,
              chance |-> rest.chance]

\* generateClusterPattern, lines 226-252
GenerateClusterPattern(bounds, stream, pos) ==
    LET clusterCount == ChanceInteger(Random(stream, pos), 2, 4)
        made == Clusters(clusterCount, bounds, stream, pos + 1)
    IN  IF MarginThrows(20, bounds)
        THEN LayoutThrows(pos + 1)
        ELSE LayoutReturns(made.stars, <<>>, made.chance)

\* the arcs still to make of generateArcPattern, lines 259-277
RECURSIVE Arcs(_, _, _, _)
Arcs(todo, bounds, stream, pos) ==
    IF todo = 0
    THEN <<>>
    ELSE LET centerX == ChanceFloating(Random(stream, pos), 300000,
                                       (bounds.width - 30) * 10000)
             centerY == ChanceFloating(Random(stream, pos + 1), 300000,
                                       (bounds.height - 30) * 10000)
             radius == ChanceFloating(Random(stream, pos + 2), 150000, 400000)
             startAngle == DrawAngle(Random(stream, pos + 3))
             arcLength == DrawArcLength(Random(stream, pos + 4))
             starsInArc == ChanceInteger(Random(stream, pos + 5), 5, 12)
             onArc ==
                 [k \in 1..starsInArc |->
                     LET angle == startAngle
                                      + (arcLength * (k - 1))
                                            \div (starsInArc - 1)
                     IN  Star(centerX + (MathCos(angle) * radius) \div 1000,
                              centerY + (MathSin(angle) * radius) \div 1000,
                              5000)]
         IN  SelectSeq(onArc, LAMBDA star : KeptInside(star, bounds))
                 \o Arcs(todo - 1, bounds, stream, pos + 6)

\* generateArcPattern, lines 255-281
GenerateArcPattern(bounds, stream, pos) ==
    LET arcCount == ChanceInteger(Random(stream, pos), 1, 3)
    IN  IF MarginThrows(30, bounds)
        THEN LayoutThrows(pos + 1)
        ELSE LayoutReturns(Arcs(arcCount, bounds, stream, pos + 1), <<>>,
                           pos + 1 + 6 * arcCount)

\* lines 54-55 of generateConstellation: starCount, and connectionThreshold
\* in hundredths of a pixel
SpiralStarCount(quote) == ((quote.wordCount * PhiMicro) \div 1000000) + 3
SpiralThreshold(quote) == (quote.charCount * PhiMicro) \div 10000

\* lines 83-87: the point of index i of the golden spiral
SpiralPoint(i, bounds) ==
    LET angle == i * 38832
        radius == 15 * MathSqrt(i)
    IN  Star(bounds.width * 5000 + (MathCos(angle) * radius) \div 1000,
             bounds.height * 5000 + (MathSin(angle) * radius) \div 1000,
             2500)

\* line 90
InsideBounds(star, bounds) ==
    /\ star.x > 0 /\ star.x < bounds.width * 10000
    /\ star.y > 0 /\ star.y < bounds.height * 10000

\* lines 102-103: Math.hypot(...) < connectionThreshold, in hundredths
HypotBelow(a, b, threshold) ==
    LET dx == (b.x - a.x) \div 100
        dy == (b.y - a.y) \div 100
    IN  dx * dx + dy * dy < threshold * threshold

\* lines 47-111 of generateConstellation: the golden spiral
GoldenSpiral(quote, bounds, pos) ==
    LET crypto == CryptoStars("lib/constellation.js",
                              KeyWord(quote.nouns, quote.adjectives), bounds)
        first == Len(crypto)
        points == [k \in 1..(SpiralStarCount(quote) - first) |->
                      SpiralPoint(first + k - 1, bounds)]
        stars == crypto \o SelectSeq(points,
                               LAMBDA star : InsideBounds(star, bounds))
        near == SelectSeq([i \in 1..(Len(stars) - 1) |-> i],
                    LAMBDA i : HypotBelow(stars[i], stars[i + 1],
                                          SpiralThreshold(quote)))
    IN  LayoutReturns(stars,
            [k \in 1..Len(near) |->
                Connection(stars[near[k]], stars[near[k] + 1], FALSE)],
            pos)

\* lines 16-19
ConstellationTypes ==
    <<"simple_dots", "golden_spiral", "random_scatter", "minimal_lines",
      "cluster_pattern", "arc_pattern">>
ConstellationWeights == <<25, 20, 20, 15, 10, 10>>

\* lines 22-111: the layout of the type chosen
Layout(type, quote, bounds, stream, pos) ==
    CASE type = "simple_dots" -> GenerateSimpleDots(bounds, stream, pos)
      [] type = "random_scatter" -> GenerateRandomScatter(bounds, stream, pos)
      [] type = "minimal_lines" -> GenerateMinimalLines(bounds, stream, pos)
      [] type = "cluster_pattern" ->
             GenerateClusterPattern(bounds, stream, pos)
      [] type = "arc_pattern" -> GenerateArcPattern(bounds, stream, pos)
      [] type = "golden_spiral" -> GoldenSpiral(quote, bounds, pos)

-----------------------------------------------------------------------------
(* The two calls of generateConstellation *)

NoOverlay ==
    [pc |-> "start", chance |-> 0, type |-> "", logoInfluence |-> FALSE,
     cryptoStars |-> <<>>, stars |-> <<>>, connections |-> <<>>,
     raised |-> FALSE]

InitOverlay ==
    /\ oImpl \in Implementations
    /\ oStream \in OverlayStreams
    /\ oQuote \in OverlayQuotes
    /\ oBounds \in OverlayBounds
    /\ oRuns = [r \in Runs |-> NoOverlay]

\* no constellation is being generated
OverlayIdle ==
    /\ oImpl = "" /\ oStream = <<>>
    /\ oQuote = [wordCount |-> 0, charCount |-> 0, nouns |-> <<>>,
                 adjectives |-> <<>>, verbs |-> <<>>]
    /\ oBounds = [width |-> 0, height |-> 0, isSquare |-> FALSE]
    /\ oRuns = <<>>

\* the call r may start: the second call starts when the first has returned
MayStart(r) ==
    /\ oRuns[r].pc = "start"
    /\ r = 1 \/ oRuns[1].pc \in {"done", "raised"}

\* generate.js lines 114-149: chance = new Chance(seed); logoInfluence
GenSeed(r) ==
    /\ oImpl = "generate.js"
    /\ MayStart(r)
    /\ LET start == NewChance(oRuns[Other(r)].chance)
       IN  oRuns' = [oRuns EXCEPT ![r] =
                        [@ EXCEPT !.pc = "crypto", !.chance = start + 1,
                                  !.logoInfluence =
                                      ChanceBool(Random(oStream, start),
                                                 20, 1)]]
    /\ UNCHANGED <<oImpl, oStream, oQuote, oBounds>>
    /\ UNCHANGED nonOverlayVars

\* generate.js lines 152-172
GenCrypto(r) ==
    /\ oImpl = "generate.js"
    /\ oRuns[r].pc = "crypto"
    /\ oRuns' = [oRuns EXCEPT ![r] =
                    [@ EXCEPT !.pc = "stars",
                              !.cryptoStars =
                                  CryptoStars(oImpl,
                                      KeyWord(oQuote.nouns,
                                              oQuote.adjectives),
                                      oBounds)]]
    /\ UNCHANGED <<oImpl, oStream, oQuote, oBounds>>
    /\ UNCHANGED nonOverlayVars

\* generate.js lines 174-215: one iteration of the loop
GenStar(r) ==
    /\ oImpl = "generate.js"
    /\ oRuns[r].pc = "stars"
    /\ Len(oRuns[r].stars) < StarCount(oQuote)
    /\ LET i == Len(oRuns[r].stars)
           placed == PlaceStar(oStream, oRuns[r].chance, i,
                               oRuns[r].logoInfluence, oBounds)
       IN  IF i = 0 /\ Len(oRuns[r].cryptoStars) > 0
           THEN oRuns' = [oRuns EXCEPT ![r] =
                             [@ EXCEPT !.stars =
                                           <<oRuns[r].cryptoStars[1]>>]]
           ELSE oRuns' = [oRuns EXCEPT ![r] =
                             [@ EXCEPT !.stars = Append(@, placed.star),
                                       !.chance = placed.chance]]
    /\ UNCHANGED <<oImpl, oStream, oQuote, oBounds>>
    /\ UNCHANGED nonOverlayVars

\* generate.js lines 220-270: the square format
GenSquare(r) ==
    /\ oImpl = "generate.js"
    /\ oRuns[r].pc = "stars"
    /\ Len(oRuns[r].stars) >= StarCount(oQuote)
    /\ oBounds.isSquare
    /\ LET keyWord == FormationWord(oQuote)
           c == oRuns[r].chance
           form == keyWord # <<>> /\ ChanceBool(Random(oStream, c), 40, 1)
           drawn == IF keyWord # <<>> THEN c + 1 ELSE c
           wordStars == IF form
                        THEN CreateWordFromStars(keyWord, oBounds, oStream,
                                                 drawn)
                        ELSE <<>>
           stars == oRuns[r].stars \o wordStars
       IN  oRuns' = [oRuns EXCEPT ![r] =
                        [@ EXCEPT !.pc = "done", !.stars = stars,
                                  !.chance = drawn + Len(wordStars),
                                  !.connections =
                                      SquareConnections(stars, oBounds)]]
    /\ UNCHANGED <<oImpl, oStream, oQuote, oBounds>>
    /\ UNCHANGED nonOverlayVars

\* generate.js lines 271-291: the story format
GenStory(r) ==
    /\ oImpl = "generate.js"
    /\ oRuns[r].pc = "stars"
    /\ Len(oRuns[r].stars) >= StarCount(oQuote)
    /\ ~oBounds.isSquare
    /\ oRuns' = [oRuns EXCEPT ![r] =
                    [@ EXCEPT !.pc = "done",
                              !.connections =
                                  StoryConnections(oRuns[r].stars,
                                      ConnectionThreshold(oQuote))]]
    /\ UNCHANGED <<oImpl, oStream, oQuote, oBounds>>
    /\ UNCHANGED nonOverlayVars

\* lib/constellation.js lines 12-19: chance = new Chance(seed);
\* constellationType
LibSeed(r) ==
    /\ oImpl = "lib/constellation.js"
    /\ MayStart(r)
    /\ LET start == NewChance(oRuns[Other(r)].chance)
       IN  oRuns' = [oRuns EXCEPT ![r] =
                        [@ EXCEPT !.pc = "layout", !.chance = start + 1,
                                  !.type =
                                      ChanceWeighted(Random(oStream, start),
                                          ConstellationTypes,
                                          ConstellationWeights)]]
    /\ UNCHANGED <<oImpl, oStream, oQuote, oBounds>>
    /\ UNCHANGED nonOverlayVars

\* lib/constellation.js lines 22-111: the layout returns its overlay
LibLayout(r) ==
    /\ oImpl = "lib/constellation.js"
    /\ oRuns[r].pc = "layout"
    /\ LET made == Layout(oRuns[r].type, oQuote, oBounds, oStream,
                          oRuns[r].chance)
       IN  /\ made.pc = "done"
           /\ oRuns' = [oRuns EXCEPT ![r] =
                           [@ EXCEPT !.pc = "done", !.stars = made.stars,
                                     !.connections = made.connections,
                                     !.chance = made.chance]]
    /\ UNCHANGED <<oImpl, oStream, oQuote, oBounds>>
    /\ UNCHANGED nonOverlayVars

\* lib/constellation.js lines 22-44: a draw of the layout throws, and
\* nothing catches the RangeError
LibThrow(r) ==
    /\ oImpl = "lib/constellation.js"
    /\ oRuns[r].pc = "layout"
    /\ LET made == Layout(oRuns[r].type, oQuote, oBounds, oStream,
                          oRuns[r].chance)
       IN  /\ made.pc = "raised"
           /\ oRuns' = [oRuns EXCEPT ![r] =
                           [@ EXCEPT !.pc = "raised", !.raised = TRUE,
                                     !.chance = made.chance]]
    /\ UNCHANGED <<oImpl, oStream, oQuote, oBounds>>
    /\ UNCHANGED nonOverlayVars

NextOverlay ==
    \E r \in Runs :
        \/ GenSeed(r)
        \/ GenCrypto(r)
        \/ GenStar(r)
        \/ GenSquare(r)
        \/ GenStory(r)
        \/ LibSeed(r)
        \/ LibLayout(r)
        \/ LibThrow(r)

-----------------------------------------------------------------------------
(* ColorOrchestrator of lib/advanced-color-system.js: the master palette   *)
(*                                                                         *)
(* A palette colour is the triple given to chroma.hsl: the hue in degrees, *)
(* as passed (h - 30 may be negative and h + 240 above 360), saturation    *)
(* and lightness in thousandths.                                           *)

Hsl(h, s, l) == [h |-> h, s |-> s, l |-> l]

\* chroma.temperature(baseTemp).hsl() of the library, tabulated for the
\* temperatures the streams produce and rounded to the units above
TemperatureHsl(baseTemp) ==
    CASE baseTemp = 3000 -> Hsl(29, 1000, 712)
      [] baseTemp = 4000 -> Hsl(29, 1000, 821)
      [] baseTemp = 7750 -> Hsl(227, 1000, 949)
      [] OTHER           -> Hsl(0, 0, 1000)

\* s * 0.9, l * 1.1, ... : value * tenths / 10
Times(value, tenths) == (value * tenths) \div 10

CreateTriadicHarmony(base) ==
    <<base,
      Hsl(base.h + 120, Times(base.s, 9), Times(base.l, 11)),
      Hsl(base.h + 240, Times(base.s, 8), Times(base.l, 9))>>

CreateTetradicHarmony(base) ==
    <<base,
      Hsl(base.h + 90, base.s, base.l),
      Hsl(base.h + 180, Times(base.s, 7), Times(base.l, 12)),
      Hsl(base.h + 270, Times(base.s, 9), Times(base.l, 8))>>

CreateSplitComplementary(base) ==
    <<base,
      Hsl(base.h + 150, Times(base.s, 8), Times(base.l, 11)),
      Hsl(base.h + 210, Times(base.s, 9), Times(base.l, 9))>>

CreateAnalogousHarmonyMinus(base) ==
    <<Hsl(base.h - 30, Times(base.s, 9), Times(base.l, 11)),
      base,
      Hsl(base.h + 30, Times(base.s, 8), Times(base.l, 9)),
      Hsl(base.h - 60, Times(base.s, 7), (base.l * 105) \div 100)>>

CreateAnalogousHarmony(base) ==
    <<Hsl(base.h - 30, Times(base.s, 9), Times(base.l, 11)),
      base,
      Hsl(base.h + 30, Times(base.s, 8), Times(base.l, 9)),
      Hsl(base.h + 60, Times(base.s, 7), (base.l * 105) \div 100)>>

CreateMonochromaticHarmony(base) ==
    <<Hsl(base.h, Times(base.s, 3), Times(base.l, 14)),
      Hsl(base.h, Times(base.s, 6), Times(base.l, 12)),
      base,
      Hsl(base.h, Times(base.s, 12), Times(base.l, 8)),
      Hsl(base.h, Times(base.s, 15), Times(base.l, 6))>>

HarmonyTypes ==
    <<"triadic", "tetradic", "split_complement", "analogous",
      "monochromatic">>

\* the base colour and the harmony the orchestrator's generator selects
\* with its first two draws
BaseColor(stream, pos) ==
    TemperatureHsl(ChanceInteger(Random(stream, pos), 3000, 8000))

HarmonyType(stream, pos) ==
    ChancePickone(Random(stream, pos + 1), HarmonyTypes)

GenerateMasterPalette(stream, pos) ==
    LET baseColor == BaseColor(stream, pos)
        harmonyType == HarmonyType(stream, pos)
    IN  CASE harmonyType = "triadic" -> CreateTriadicHarmony(baseColor)
          [] harmonyType = "tetradic" -> CreateTetradicHarmony(baseColor)
          [] harmonyType = "split_complement" ->
                 CreateSplitComplementary(baseColor)
          [] harmonyType = "analogous" -> CreateAnalogousHarmony(baseColor)
          [] harmonyType = "monochromatic" ->
                 CreateMonochromaticHarmony(baseColor)
          [] OTHER -> <<baseColor>>

-----------------------------------------------------------------------------
(* The colour perturbation: glitchColor and sophisticatedColorGlitch       *)
(*                                                                         *)
(* A colour value is a record: the string the caller gave, or what a       *)
(* conversion of the chroma library computed, named by the conversion, the *)
(* colour it was computed from and the numbers drawn for it (floating      *)
(* draws in units of 1/10000).  The switch of glitchColor declares b, r,   *)
(* g and y in more than one case; the cases are modelled as written, each  *)
(* with its own names.                                                     *)

Given(text) == [kind |-> "given", of |-> text, with |-> <<>>]
Computed(kind, color, args) == [kind |-> kind, of |-> color.of, with |-> args]
NoColor == [kind |-> "", of |-> "", with |-> <<>>]

\* the base colours given: one chroma parses, one it does not
BaseColors == {Given("#ffffff"), Given("not-a-color")}

\* chroma(baseColor) returns: it throws on a string it cannot parse
Parses(baseColor) == baseColor.of = "#ffffff"

\* the colours chroma.random() returns: it draws from Math.random, which no
\* seed controls, so each call returns any of them
RandomColors == {1, 2}

\* the likelihoods given; chance.bool raises a RangeError outside 0..100
Likelihoods == {0, 25, 100, 150}

\* the streams of the seed: the first output decides the coin and the base
\* temperature, the second the glitch type, the harmony and the intensity,
\* the third the orchestrator's own coin, the fourth the technique
ColorStreams ==
    {<<a, b, c, d>> : a \in {0, 20, 95},
                      b \in {0, 10, 20, 25, 35, 45, 50, 60, 70, 75, 85, 95},
                      c \in {20, 95}, d \in {0, 20, 35, 50, 70, 95}}

Functions == {"glitchColor", "sophisticatedColorGlitch"}

\* the draw k (from 1) of a generator at position pos, as a floating
\* between min and max and as an integer
DrawFloating(stream, pos, k, min, max) ==
    ChanceFloating(Random(stream, pos + k - 1), min, max)
DrawInteger(stream, pos, k, min, max) ==
    ChanceInteger(Random(stream, pos + k - 1), min, max)

\* Math.round(num / den) for num >= 0
MathRound(num, den) == (2 * num + den) \div (2 * den)

\* glitchColor lines 83-105: the r, g, b (0..255) of a wavelength
SpectralRgb(wavelength) ==
    IF wavelength < 440
    THEN <<MathRound(255 * (440 - wavelength), 60), 0, 255>>
    ELSE IF wavelength < 490
    THEN <<0, MathRound(255 * (wavelength - 440), 50), 255>>
    ELSE IF wavelength < 510
    THEN <<0, 255, MathRound(255 * (510 - wavelength), 20)>>
    ELSE IF wavelength < 580
    THEN <<MathRound(255 * (wavelength - 510), 70), 255, 0>>
    ELSE IF wavelength < 645
    THEN <<255, MathRound(255 * (645 - wavelength), 65), 0>>
    ELSE <<255, 0, 0>>

\* what a try block comes to: a value returned, or an exception thrown
Returns(hex) == [throws |-> FALSE, hex |-> hex]
Throws == [throws |-> TRUE, hex |-> NoColor]

\* glitchColor lines 16-131: the switch, for a parsed color, the generator
\* at position pos and the two colours chroma.random() gives in case 6
GlitchSwitch(glitchType, baseColor, stream, pos, color1, color2) ==
    CASE glitchType = 1 ->
           Returns(Computed("lab", baseColor,
               <<DrawFloating(stream, pos, 1, -300000, 300000),
                 DrawFloating(stream, pos, 2, -400000, 400000),
                 DrawFloating(stream, pos, 3, -400000, 400000)>>))
      [] glitchType = 2 ->
           Returns(Computed("lch", baseColor,
               <<DrawFloating(stream, pos, 1, 20000, 50000),
                 DrawFloating(stream, pos, 2, -200000, 200000)>>))
      [] glitchType = 3 ->
           Returns(Computed("oklab", baseColor,
               <<DrawFloating(stream, pos, 1, -3000, 3000),
                 DrawFloating(stream, pos, 2, -2000, 2000),
                 DrawFloating(stream, pos, 3, -2000, 2000)>>))
      \* chroma.cubehelix(...) is a colour scheme, with no method hex
      [] glitchType = 4 -> Throws
      [] glitchType = 5 ->
           Returns(Computed("temperature", NoColor,
               <<DrawInteger(stream, pos, 1, 2000, 10000)>>))
      [] glitchType = 6 ->
           Returns(Computed("bezier", baseColor,
               <<color1, color2, DrawFloating(stream, pos, 1, 0, 10000)>>))
      [] glitchType = 7 ->
           Returns(Computed("lab", baseColor,
               <<DrawFloating(stream, pos, 1, -50000, 50000),
                 DrawFloating(stream, pos, 2, -100000, 100000),
                 DrawFloating(stream, pos, 3, -100000, 100000)>>))
      \* the first draw picks an illuminant, which is not used
      [] glitchType = 8 ->
           Returns(Computed("xyz", baseColor,
               <<DrawFloating(stream, pos, 2, 8000, 12000),
                 DrawFloating(stream, pos, 3, 9000, 11000),
                 DrawFloating(stream, pos, 4, 7000, 13000)>>))
      [] glitchType = 9 ->
           Returns(Computed("hsl", baseColor,
               <<DrawFloating(stream, pos, 1, 1000, 210000)>>))
      [] glitchType = 10 ->
           Returns(Computed("rgb", NoColor,
               SpectralRgb(DrawInteger(stream, pos, 1, 380, 750))))
      [] glitchType = 11 ->
           Returns(Computed("cmyk", baseColor,
               <<DrawFloating(stream, pos, 1, -3000, 3000),
                 DrawFloating(stream, pos, 2, -3000, 3000),
                 DrawFloating(stream, pos, 3, -3000, 3000),
                 DrawFloating(stream, pos, 4, -2000, 2000)>>))
      [] glitchType = 12 ->
           Returns(Computed("rgb", baseColor,
               <<DrawFloating(stream, pos, 1, 7000, 13000),
                 DrawFloating(stream, pos, 2, 8000, 12000),
                 DrawFloating(stream, pos, 3, 6000, 14000)>>))
      [] OTHER -> Returns(baseColor)

Techniques ==
    <<"perceptual_shift", "spectral_purity", "chromatic_adaptation",
      "oklab_precision", "temperature_evolution", "bezier_interpolation">>

Intensities == <<"subtle", "moderate", "bold">>

\* applyTechnique lines 475-536: the switch, for a parsed color and the
\* orchestrator's generator at position pos
TechniqueSwitch(technique, color, palette, stream, pos) ==
    CASE technique = "perceptual_shift" ->
           Returns(Computed("lab", color,
               <<DrawFloating(stream, pos, 1, -80000, 80000),
                 DrawFloating(stream, pos, 2, -120000, 120000),
                 DrawFloating(stream, pos, 3, -120000, 120000)>>))
      [] technique = "spectral_purity" ->
           Returns(Computed("mix_spectral", color,
               <<DrawInteger(stream, pos, 1, 420, 680)>>))
      [] technique = "chromatic_adaptation" ->
           Returns(Computed("mix_adapted", color,
               <<ChancePickone(Random(stream, pos),
                               <<2856, 5003, 6504, 9300>>)>>))
      [] technique = "oklab_precision" ->
           Returns(Computed("oklab", color,
               <<DrawFloating(stream, pos, 1, -1000, 1000),
                 DrawFloating(stream, pos, 2, -500, 500),
                 DrawFloating(stream, pos, 3, -500, 500)>>))
      \* the factor picked, in tenths
      [] technique = "temperature_evolution" ->
           Returns(Computed("mix_temperature", color,
               <<ChancePickone(Random(stream, pos), <<7, 13, 4>>)>>))
      [] technique = "bezier_interpolation" ->
           IF Len(palette) < 2
           THEN Returns(color)
           ELSE LET anchor1 ==
                        palette[DrawInteger(stream, pos, 1, 0,
                                            Len(palette) - 1) + 1]
                    anchor2 ==
                        palette[DrawInteger(stream, pos, 2, 0,
                                            Len(palette) - 1) + 1]
                IN  Returns(Computed("bezier", color,
                        <<anchor1.h, anchor1.s, anchor1.l,
                          anchor2.h, anchor2.s, anchor2.l,
                          DrawFloating(stream, pos, 3, 2000, 8000)>>))
      [] OTHER -> Returns(color)

\* the body of a try block: chroma(color) first, then the switch, in which
\* a conversion of the library throws when conversionThrows
Try(color, conversionThrows, switch) ==
    IF ~Parses(color) \/ conversionThrows THEN Throws ELSE switch

\* catch (error) { return baseColor; }
CatchReturnBlack(baseColor) == Given("#000000")
CatchReturn(baseColor) == baseColor

\* try { ... } catch (error) { return baseColor; }
TryCatch(baseColor, try) ==
    IF try.throws THEN CatchReturn(baseColor) ELSE try.hex

\* if (!chance.bool({ likelihood })) { return baseColor; }
UnchangedOnSuccess(raw, likelihood) == ChanceBool(raw, likelihood, 1)
Unchanged(raw, likelihood) == ~ChanceBool(raw, likelihood, 1)

-----------------------------------------------------------------------------
(* Two calls of the colour perturbation with the same arguments *)

NoCall ==
    [pc |-> "start", chance |-> 0, orchestrator |-> 0, palette |-> <<>>,
     glitchType |-> 0, intensity |-> "", technique |-> "",
     unchanged |-> FALSE, caught |-> FALSE, result |-> NoColor]

InitPerturb ==
    /\ qFunction \in Functions
    /\ qBaseColor \in BaseColors
    /\ qLikelihood \in Likelihoods
    /\ qStream \in ColorStreams
    /\ qThrows \in BOOLEAN
    /\ qCalls = [r \in Runs |-> NoCall]

\* no colour is being perturbed
PerturbIdle ==
    /\ qFunction = "" /\ qBaseColor = NoColor /\ qLikelihood = 0
    /\ qStream = <<>> /\ qThrows = FALSE /\ qCalls = <<>>

\* the call r may start: the second call starts when the first has returned
MayCall(r) ==
    /\ qCalls[r].pc = "start"
    /\ r = 1 \/ qCalls[1].pc \in {"done", "raised"}

\* chance.bool({ likelihood }) raises a RangeError
BoolRaises(likelihood) == likelihood < 0 \/ likelihood > 100

\* lines 6-10 of glitchColor and 615-619 of sophisticatedColorGlitch:
\* the call r after its coin, which goes on at next when perturbing
AfterCoin(r, next) ==
    LET start == NewChance(qCalls[Other(r)].chance)
    IN  IF BoolRaises(qLikelihood)
        THEN [qCalls[r] EXCEPT !.pc = "raised"]
        ELSE IF Unchanged(Random(qStream, start), qLikelihood)
        THEN [qCalls[r] EXCEPT !.pc = "done", !.chance = start + 1,
                               !.unchanged = TRUE, !.result = qBaseColor]
        ELSE [qCalls[r] EXCEPT !.pc = next, !.chance = start + 1]

\* glitchColor lines 5-10
GlitchColor(r) ==
    /\ qFunction = "glitchColor"
    /\ MayCall(r)
    /\ qCalls' = [qCalls EXCEPT ![r] = AfterCoin(r, "try")]
    /\ UNCHANGED <<qFunction, qBaseColor, qLikelihood, qStream, qThrows>>
    /\ UNCHANGED nonPerturbVars

\* glitchColor lines 12-134
GlitchColorTry(r) ==
    /\ qFunction = "glitchColor"
    /\ qCalls[r].pc = "try"
    /\ \E color1 \in RandomColors, color2 \in RandomColors :
           LET glitchType ==
                   ChanceInteger(Random(qStream, qCalls[r].chance), 1, 12)
               try == Try(qBaseColor, qThrows,
                          GlitchSwitch(glitchType, qBaseColor, qStream,
                                       qCalls[r].chance + 1, color1, color2))
           IN  qCalls' = [qCalls EXCEPT ![r] =
                   [@ EXCEPT !.pc = "done",
                             !.glitchType =
                                 IF Parses(qBaseColor) THEN glitchType ELSE 0,
                             !.caught = try.throws,
                             !.result = TryCatch(qBaseColor, try)]]
    /\ UNCHANGED <<qFunction, qBaseColor, qLikelihood, qStream, qThrows>>
    /\ UNCHANGED nonPerturbVars

\* sophisticatedColorGlitch lines 614-619
SophisticatedColorGlitch(r) ==
    /\ qFunction = "sophisticatedColorGlitch"
    /\ MayCall(r)
    /\ qCalls' = [qCalls EXCEPT ![r] = AfterCoin(r, "orchestrator")]
    /\ UNCHANGED <<qFunction, qBaseColor, qLikelihood, qStream, qThrows>>
    /\ UNCHANGED nonPerturbVars

\* sophisticatedColorGlitch lines 621-622: new ColorOrchestrator(seed),
\* whose generator makes two draws for the palette, then the intensity
NewColorOrchestrator(r) ==
    /\ qCalls[r].pc = "orchestrator"
    /\ LET start == NewChance(qCalls[Other(r)].orchestrator)
       IN  qCalls' = [qCalls EXCEPT ![r] =
               [@ EXCEPT !.pc = "enhance",
                         !.orchestrator = start + 2,
                         !.palette = GenerateMasterPalette(qStream, start),
                         !.intensity =
                             ChancePickone(Random(qStream, qCalls[r].chance),
                                           Intensities),
                         !.chance = @ + 1]]
    /\ UNCHANGED <<qFunction, qBaseColor, qLikelihood, qStream, qThrows>>
    /\ UNCHANGED nonPerturbVars

\* getEnhancedColor lines 454-469
GetEnhancedColor(r) ==
    /\ qCalls[r].pc = "enhance"
    /\ LET pos == qCalls[r].orchestrator
       IN  qCalls' = [qCalls EXCEPT ![r] =
               IF ChanceBool(Random(qStream, pos), 85, 1)
               THEN [@ EXCEPT !.pc = "done", !.orchestrator = pos + 1,
                              !.result = qBaseColor]
               ELSE [@ EXCEPT !.pc = "technique", !.orchestrator = pos + 2,
                              !.technique =
                                  ChancePickone(Random(qStream, pos + 1),
                                                Techniques)]]
    /\ UNCHANGED <<qFunction, qBaseColor, qLikelihood, qStream, qThrows>>
    /\ UNCHANGED nonPerturbVars

\* applyTechnique lines 471-540
ApplyTechnique(r) ==
    /\ qCalls[r].pc = "technique"
    /\ LET try == Try(qBaseColor, qThrows,
                      TechniqueSwitch(qCalls[r].technique, qBaseColor,
                                      qCalls[r].palette, qStream,
                                      qCalls[r].orchestrator))
       IN  qCalls' = [qCalls EXCEPT ![r] =
               [@ EXCEPT !.pc = "done", !.caught = try.throws,
                         !.result = TryCatch(qBaseColor, try)]]
    /\ UNCHANGED <<qFunction, qBaseColor, qLikelihood, qStream, qThrows>>
    /\ UNCHANGED nonPerturbVars

NextPerturb ==
    \E r \in Runs :
        \/ GlitchColor(r)
        \/ GlitchColorTry(r)
        \/ SophisticatedColorGlitch(r)
        \/ NewColorOrchestrator(r)
        \/ GetEnhancedColor(r)
        \/ ApplyTechnique(r)

-----------------------------------------------------------------------------
(* main of generate.js: the batch loop over quotes and templates           *)
(*                                                                         *)
(* Strings are sequences of code units.                                    *)

\* "Ship it!"
TextShipIt ==
    <<83, 104, 105, 112, 32, 105, 116, 33>>
\* "ship it?"
TextShipItAsked ==
    <<115, 104, 105, 112, 32, 105, 116, 63>>
\* "Make it work first, make it pretty later"
TextPrettyLater ==
    <<77, 97, 107, 101, 32, 105, 116, 32, 119, 111, 114, 107, 32, 102, 105,
    114, 115, 116, 44, 32, 109, 97, 107, 101, 32, 105, 116, 32, 112, 114,
    101, 116, 116, 121, 32, 108, 97, 116, 101, 114>>
\* "Make it work first, make it pretty now"
TextPrettyNow ==
    <<77, 97, 107, 101, 32, 105, 116, 32, 119, 111, 114, 107, 32, 102, 105,
    114, 115, 116, 44, 32, 109, 97, 107, 101, 32, 105, 116, 32, 112, 114,
    101, 116, 116, 121, 32, 110, 111, 119>>
\* "social-01"
NameSocial01 ==
    <<115, 111, 99, 105, 97, 108, 45, 48, 49>>
\* "social-05"
NameSocial05 ==
    <<115, 111, 99, 105, 97, 108, 45, 48, 53>>

\* the texts a corpus is made of
Texts == {TextShipIt, TextShipItAsked, TextPrettyLater, TextPrettyNow}

\* generate.js line 686: the names of the templates, in order
Templates == <<NameSocial01, NameSocial05>>

\* str.toLowerCase(), on the letters A-Z
ToLowerCase(str) ==
    [k \in 1..Len(str) |->
        IF str[k] \in 65..90 THEN str[k] + 32 ELSE str[k]]

\* the class [a-z0-9]
IsAlnum(c) == c \in 97..122 \/ c \in 48..57

\* str.replace(/[^a-z0-9]+/g, '-'): one '-' for every run of other characters
RECURSIVE ReplaceRuns(_, _)
ReplaceRuns(str, k) ==
    IF k > Len(str) THEN <<>>
    ELSE IF IsAlnum(str[k]) THEN <<str[k]>> \o ReplaceRuns(str, k + 1)
    ELSE IF k > 1 /\ ~IsAlnum(str[k - 1]) THEN ReplaceRuns(str, k + 1)
    ELSE <<45>> \o ReplaceRuns(str, k + 1)

\* str.slice(0, n)
Slice(str, n) == SubSeq(str, 1, IF n < Len(str) THEN n ELSE Len(str))

\* generate.js line 32: the length a slug is cut to
SlugLength == 30

\* generate.js line 32
Slug(text) == Slice(ReplaceRuns(ToLowerCase(text), 1), SlugLength)

\* generate.js lines 21-38: the quotes parsed from the texts of the corpus
ParseQuotes(texts) ==
    [k \in 1..Len(texts) |-> [text |-> texts[k], slug |-> Slug(texts[k])]]

\* the corpora: up to MaxQuotes quotes of different texts
RECURSIVE Corpora(_)
Corpora(n) ==
    IF n = 0 THEN {<<>>}
    ELSE {Append(s, t) : s \in Corpora(n - 1), t \in Texts}

AllDifferent(texts) ==
    \A j, k \in 1..Len(texts) : j # k => texts[j] # texts[k]

CorpusTexts ==
    {texts \in UNION {Corpora(n) : n \in 1..MaxQuotes} : AllDifferent(texts)}

\* generate.js lines 41-49: hashString, as one function of the string
RECURSIVE HashLoop(_, _, _)
HashLoop(hash, str, i) ==
    IF i > Len(str) THEN hash
    ELSE LET next == GenHashStep(hash, str[i])
         \* the test makes the step a value before the next iteration
         IN  IF next \in Int THEN HashLoop(next, str, i + 1) ELSE next

HashString(str) == MathAbs(HashLoop(0, str, 1))

\* no seed taken
NoSeed == [hi |-> -1, lo |-> 0]

\* the seeds of one quote x template item
NoSeeds == [constellation |-> NoSeed, canvas |-> NoSeed, glitch |-> NoSeed]

ConstellationSeedPerTemplate(quote, template) ==
    HashString(quote.text \o template)
\* generate.js line 114 (and line 617 of populateTemplate)
ConstellationSeed(quote, template) == HashString(quote.text)
\* generate.js line 737
CanvasSeed(quote, template) == HashString(quote.text \o template)
\* generate.js line 442 (lib/pixel-glitch.js line 180 has the same argument)
GlitchSeed(quote, template) == HashString(quote.text)

\* ".svg", ".png", "./svg-exports/", "./stories/" and "_"
Path(dir, name, slug, ext) ==
    [dir |-> dir, filename |-> name \o <<95>> \o slug, ext |-> ext]
NoPath == [dir |-> "", filename |-> <<>>, ext |-> ""]

\* the item being processed: nothing done yet
NoItem(i, t) == [quote |-> i, template |-> t, buffer |-> "", canvas |-> ""]

\* what is kept of an item that has ended
Ended(item, path, failed) ==
    [quote |-> item.quote, template |-> item.template, path |-> path,
     failed |-> failed]

\* no seed taken yet for the quote at hand, on any template
NoneSeeded == [t \in 1..Len(Templates) |-> NoSeeds]

InitBatch ==
    /\ bQuotes \in {ParseQuotes(texts) : texts \in CorpusTexts}
    /\ bAe \in BOOLEAN
    /\ bI = 1 /\ bT = 1
    /\ bItem = NoItem(1, 1)
    /\ bSeeds = NoneSeeded
    /\ bPc = "populate"
    /\ bLog = <<>>
    /\ bCount = 0

\* main is not running
BatchIdle ==
    /\ bQuotes = <<>> /\ bAe = FALSE /\ bI = 0 /\ bT = 0
    /\ bItem = NoItem(0, 0) /\ bSeeds = <<>> /\ bPc = "" /\ bLog = <<>>
    /\ bCount = 0

\* lines 707-710 and 774-776: the item is over; the inner loop goes to
\* the next template, the outer loop to the next quote, and after the last
\* quote main prints the count
EndItem(ended) ==
    LET t == IF bT < Len(Templates) THEN bT + 1 ELSE 1
        i == IF bT < Len(Templates) THEN bI ELSE bI + 1
    IN  /\ bLog' = Append(bLog, ended)
        /\ bT' = t
        /\ bI' = i
        /\ bItem' = NoItem(i, t)
        /\ bSeeds' = IF i = bI THEN bSeeds ELSE NoneSeeded
        /\ bPc' = IF i > Len(bQuotes) THEN "done" ELSE "populate"

\* lines 771-773: catch (error) { console.log(...) }, and what follows it
ItemCatchRethrows(ended) ==
    /\ bLog' = Append(bLog, ended)
    /\ bPc' = "rejected"
    /\ UNCHANGED <<bI, bT, bItem, bSeeds>>
ItemCatch(ended) == EndItem(ended)

\* the statement at hand throws: the catch of the item logs the failure
Throw ==
    /\ ItemCatch(Ended(bItem, NoPath, TRUE))
    /\ UNCHANGED <<bQuotes, bAe, bCount>>

\* line 712: populateTemplate, which seeds the constellation
MainPopulate ==
    /\ bPc = "populate"
    /\ \/ Throw
       \/ /\ bSeeds' = [bSeeds EXCEPT ![bT].constellation =
                           ConstellationSeed(bQuotes[bI], Templates[bT])]
          /\ bItem' = [bItem EXCEPT !.buffer = "svg"]
          /\ bPc' = IF bAe THEN "svg" ELSE "png"
          /\ UNCHANGED <<bQuotes, bAe, bI, bT, bLog, bCount>>
    /\ UNCHANGED nonBatchVars

\* lines 714-721 and 769: the SVG is written for After Effects
MainExportSvg ==
    /\ bPc = "svg"
    /\ \/ Throw
       \/ /\ EndItem(Ended(bItem,
                           Path("./svg-exports/", Templates[bT],
                                bQuotes[bI].slug, ".svg"), FALSE))
          /\ bCount' = bCount + 1
          /\ UNCHANGED <<bQuotes, bAe>>
    /\ UNCHANGED nonBatchVars

\* lines 723-739: sharp makes the PNG, then the coin of the glitch canvas
MainConvert ==
    /\ bPc = "png"
    /\ \/ Throw
       \/ /\ bSeeds' = [bSeeds EXCEPT ![bT].canvas =
                           CanvasSeed(bQuotes[bI], Templates[bT])]
          /\ bItem' = [bItem EXCEPT !.buffer = "png"]
          /\ \E coin \in BOOLEAN :
                 bPc' = IF coin THEN "canvas" ELSE "effects"
          /\ UNCHANGED <<bQuotes, bAe, bI, bT, bLog, bCount>>
    /\ UNCHANGED nonBatchVars

\* lines 740-759: the glitch canvas, whose failure is caught and logged in
\* place
MainGlitchCanvas ==
    /\ bPc = "canvas"
    /\ \E throws \in BOOLEAN :
           bItem' = [bItem EXCEPT !.canvas =
                        IF throws THEN "failed" ELSE "applied"]
    /\ bPc' = "effects"
    /\ UNCHANGED <<bQuotes, bAe, bI, bT, bSeeds, bLog, bCount>>
    /\ UNCHANGED nonBatchVars

\* lines 762-764: applyGlitchEffects, which returns the original buffer
\* when its processing fails, and rejects when its argument is not valid
MainGlitchEffects ==
    /\ bPc = "effects"
    /\ \/ Throw
       \/ /\ bSeeds' = [bSeeds EXCEPT ![bT].glitch =
                           GlitchSeed(bQuotes[bI], Templates[bT])]
          /\ bItem' = [bItem EXCEPT !.buffer = "glitched"]
          /\ bPc' = "write"
          /\ UNCHANGED <<bQuotes, bAe, bI, bT, bLog, bCount>>
    /\ UNCHANGED nonBatchVars

\* lines 766-769: the PNG is written
MainWrite ==
    /\ bPc = "write"
    /\ \/ Throw
       \/ /\ EndItem(Ended(bItem,
                           Path("./stories/", Templates[bT],
                                bQuotes[bI].slug, ".png"), FALSE))
          /\ bCount' = bCount + 1
          /\ UNCHANGED <<bQuotes, bAe>>
    /\ UNCHANGED nonBatchVars

NextBatch ==
    \/ MainPopulate
    \/ MainExportSvg
    \/ MainConvert
    \/ MainGlitchCanvas
    \/ MainGlitchEffects
    \/ MainWrite

-----------------------------------------------------------------------------
(* applyChannelShift, applyDataMosh, applyScanlines, applyInterlace,
   applyNoise and applyMirror of lib/pixel-glitch.js on a Uint8Array *)

\* the values this.random() takes here, in units of 1 / RandomUnit
FilterDraws == {0, 99}

\* the value a Uint8Array keeps of an assigned number: modulo 2^8, and 0 for
\* undefined (NaN)
ToUint8(v) == IF v = -1 THEN 0 ELSE v % 256

\* pixels[idx] = v: an assignment beyond the end of a typed array is ignored
Put(buf, idx, v) ==
    IF idx >= 0 /\ idx < Len(buf) THEN [buf EXCEPT ![idx + 1] = ToUint8(v)]
    ELSE buf

\* Math.max(0, Math.min(width - 1, x))
ClampX(width, x) == MathMax(0, MathMin(width - 1, x))

\* the shapes decoded and the decoded images
FilterShapes ==
    {<<w, h, ch>> : w \in 1..MaxFilterSide, h \in 1..MaxFilterSide, ch \in {3, 4}}
Gradient(len) == [k \in 1..len |-> ((k - 1) * 23) % 256]
White(len) == [k \in 1..len |-> 255]

\* redShift and blueShift: chance.floating in units of 1/10000, times 8 when
\* the coin of likelihood 0.5 succeeds, rounded, times the direction
ShiftAmount(rawShift, rawCoin, rawDir, min, max) ==
    LET shift == ChanceFloating(rawShift, min, max)
        times == IF ChanceBool(rawCoin, 1, 2) THEN 8 ELSE 1
        direction == IF ChanceBool(rawDir, 50, 1) THEN 1 ELSE -1
    IN  MathRound(shift * times, 10000) * direction

NoShift == [red |-> 0, blue |-> 0]

\* the function declarations named applyDataMosh, in the order of the file:
\* line 333 (blends blocks with enough variation) and line 734 (copies runs
\* of samples)
DataMoshDeclarations == <<"quality", "naive">>

\* the function a name is bound to in the module scope: declarations are
\* hoisted, and of two with the same name the later one replaces the earlier
Bound(declarations) == declarations[Len(declarations)]

NoVariant == [wanted |-> "none", ran |-> "none"]

\* chance.integer({ min: 0, max: height * 0.7 }): the maximum is no integer
StartY(raw, height) == (raw * (7 * height + 10)) \div (10 * RandomUnit)

\* the two assignments of the loop body at (x, y)
ShiftAt(buf, width, channels, shift, y, x) ==
    LET idx == (y * width + x) * channels
        redIdx == (y * width + ClampX(width, x + shift.red)) * channels
        blueIdx == (y * width + ClampX(width, x + shift.blue)) * channels
        red == Put(buf, idx, Sample(buf, redIdx))
    IN  Put(red, idx + 2, Sample(red, blueIdx + 2))

\* the loops over y in startY..endY-1 and x in 0..width-1, from (y, x) on
RECURSIVE ShiftRegion(_, _, _, _, _, _, _)
ShiftRegion(buf, width, channels, shift, endY, y, x) ==
    IF y >= endY THEN buf
    ELSE IF x >= width
         THEN ShiftRegion(buf, width, channels, shift, endY, y + 1, 0)
         ELSE ShiftRegion(ShiftAt(buf, width, channels, shift, y, x),
                          width, channels, shift, endY, y, x + 1)

ShiftWrites(width, channels, startY, endY) ==
    {(y * width + x) * channels + d :
        y \in startY..(endY - 1), x \in 0..(width - 1), d \in {0, 2}}

\* Math.max(0, pixels.length - channels), the largest index drawn by
\* applyDataMosh and applyNoise
MaxIndexWhole(buf, channels) == Len(buf)
MaxIndex(buf, channels) == MathMax(0, Len(buf) - channels)

\* for (j = 0; j < blockSize && srcIdx + j < length && destIdx + j < length)
RECURSIVE CopyBlock(_, _, _, _, _)
CopyBlock(buf, srcIdx, destIdx, blockSize, j) ==
    IF j < blockSize /\ srcIdx + j < Len(buf) /\ destIdx + j < Len(buf)
    THEN CopyBlock(Put(buf, destIdx + j, Sample(buf, srcIdx + j)),
                   srcIdx, destIdx, blockSize, j + 1)
    ELSE buf

CopyWrites(buf, srcIdx, destIdx, blockSize) ==
    {destIdx + j : j \in {k \in 0..(blockSize - 1) :
                            srcIdx + k < Len(buf) /\ destIdx + k < Len(buf)}}

\* Math.floor(pixels[idx] * intensity), intensity in units of 1/10000
Dim(v, intensity) == IF v = -1 THEN -1 ELSE (v * intensity) \div 10000

\* the three assignments of a scanline pixel
DimAt(buf, idx, intensity) ==
    LET r == Put(buf, idx, Dim(Sample(buf, idx), intensity))
        g == Put(r, idx + 1, Dim(Sample(r, idx + 1), intensity))
    IN  Put(g, idx + 2, Dim(Sample(g, idx + 2), intensity))

RECURSIVE ScanLoop(_, _, _, _, _, _, _, _)
ScanLoop(buf, width, height, channels, spacing, intensity, y, x) ==
    IF y >= height THEN buf
    ELSE IF x >= width
         THEN ScanLoop(buf, width, height, channels, spacing, intensity,
                       y + spacing, 0)
         ELSE ScanLoop(DimAt(buf, (y * width + x) * channels, intensity),
                       width, height, channels, spacing, intensity, y, x + 1)

ScanWrites(width, height, channels, spacing, startY) ==
    {(y * width + x) * channels + d :
        y \in {r \in startY..(height - 1) : (r - startY) % spacing = 0},
        x \in 0..(width - 1), d \in 0..2}

\* the three assignments that copy the pixel at srcIdx to destIdx
CopyPixel(buf, srcIdx, destIdx) ==
    LET r == Put(buf, destIdx, Sample(buf, srcIdx))
        g == Put(r, destIdx + 1, Sample(r, srcIdx + 1))
    IN  Put(g, destIdx + 2, Sample(g, srcIdx + 2))

\* applyInterlace: offsets[y \div 2 + 1] is the offset drawn for row y
RECURSIVE InterlaceLoop(_, _, _, _, _, _, _)
InterlaceLoop(buf, width, height, channels, offsets, y, x) ==
    IF y >= height THEN buf
    ELSE IF x >= width
         THEN InterlaceLoop(buf, width, height, channels, offsets, y + 2, 0)
         ELSE LET srcX == ClampX(width, x + offsets[(y \div 2) + 1])
              IN  InterlaceLoop(CopyPixel(buf, (y * width + srcX) * channels,
                                          (y * width + x) * channels),
                                width, height, channels, offsets, y, x + 1)

InterlaceWrites(width, height, channels) ==
    {(y * width + x) * channels + d :
        y \in {r \in 0..(height - 1) : r % 2 = 0},
        x \in 0..(width - 1), d \in 0..2}

\* mirrorDirection > 0 ? mirrorY + (mirrorY - y) : Math.abs(mirrorY - y)
SrcY(mirrorY, mirrorDirection, y) ==
    IF mirrorDirection > 0 THEN mirrorY + (mirrorY - y)
    ELSE IF mirrorY - y < 0 THEN y - mirrorY ELSE mirrorY - y

RECURSIVE MirrorLoop(_, _, _, _, _, _, _, _)
MirrorLoop(buf, width, height, channels, mirrorY, mirrorDirection, y, x) ==
    LET srcY == SrcY(mirrorY, mirrorDirection, y)
    IN  IF y >= mirrorY THEN buf
        ELSE IF x >= width \/ ~(srcY >= 0 /\ srcY < height)
             THEN MirrorLoop(buf, width, height, channels, mirrorY,
                             mirrorDirection, y + 1, 0)
             ELSE MirrorLoop(CopyPixel(buf, (srcY * width + x) * channels,
                                       (y * width + x) * channels),
                             width, height, channels, mirrorY,
                             mirrorDirection, y, x + 1)

MirrorWrites(width, height, channels, mirrorY, mirrorDirection) ==
    {(y * width + x) * channels + d :
        y \in {r \in 0..(mirrorY - 1) :
                 SrcY(mirrorY, mirrorDirection, r) < height},
        x \in 0..(width - 1), d \in 0..2}

\* the filters of applyGlitchEffects modelled here, in the order of its ifs
FilterChain ==
    <<"channelShift", "dataMosh", "scanlines", "interlace", "noise", "mirror">>

InitFilter ==
    /\ \E shape \in FilterShapes :
          /\ fWidth = shape[1] /\ fHeight = shape[2] /\ fChannels = shape[3]
          /\ fPixels \in {Gradient(shape[1] * shape[2] * shape[3]),
                          White(shape[1] * shape[2] * shape[3])}
    /\ fNext = 1
    /\ fRunning = FALSE
    /\ fShift = NoShift
    /\ fCount = 0 /\ fI = 0
    /\ fApplied = {}
    /\ fWritten = {}
    /\ fVariant = NoVariant

\* no buffer is being filtered
FilterIdle ==
    /\ fWidth = 0 /\ fHeight = 0 /\ fChannels = 0 /\ fPixels = <<>>
    /\ fNext = 0 /\ fRunning = FALSE /\ fShift = NoShift /\ fCount = 0
    /\ fI = 0 /\ fApplied = {} /\ fWritten = {} /\ fVariant = NoVariant

AtFilter(name) ==
    /\ fNext \in 1..Len(FilterChain)
    /\ FilterChain[fNext] = name

\* the if of a filter is entered
Enter(name) ==
    /\ AtFilter(name)
    /\ ~fRunning
    /\ fApplied' = fApplied \cup {name}

\* a filter without a drawn count returns
Return(buf, writes) ==
    /\ fPixels' = buf
    /\ fWritten' = writes
    /\ fNext' = fNext + 1
    /\ UNCHANGED <<fWidth, fHeight, fChannels, fRunning, fShift, fCount, fI,
                   fVariant>>
    /\ UNCHANGED nonFilterVars

\* the loop of a filter starts: of its count iterations the first MaxIter
\* are modelled
BeginLoop(count, shift, variant) ==
    /\ fRunning' = TRUE
    /\ fVariant' = variant
    /\ fCount' = MathMin(count, MaxIter)
    /\ fI' = 0
    /\ fShift' = shift
    /\ fWritten' = {}
    /\ UNCHANGED <<fWidth, fHeight, fChannels, fPixels, fNext>>
    /\ UNCHANGED nonFilterVars

\* one iteration of the loop of a filter; after the last one it returns
Iterate(name, buf, writes) ==
    /\ AtFilter(name)
    /\ fRunning
    /\ fI < fCount
    /\ fPixels' = buf
    /\ fWritten' = writes
    /\ fI' = fI + 1
    /\ fRunning' = (fI + 1 < fCount)
    /\ fNext' = IF fI + 1 < fCount THEN fNext ELSE fNext + 1
    /\ fShift' = IF fI + 1 < fCount THEN fShift ELSE NoShift
    /\ fVariant' = IF fI + 1 < fCount THEN fVariant ELSE NoVariant
    /\ UNCHANGED <<fWidth, fHeight, fChannels, fCount, fApplied>>
    /\ UNCHANGED nonFilterVars

\* lines 216-250: mix[type] is false
SkipFilterIf ==
    /\ fNext \in 1..Len(FilterChain)
    /\ ~fRunning
    /\ fNext' = fNext + 1
    /\ fWritten' = {}
    /\ UNCHANGED <<fWidth, fHeight, fChannels, fPixels, fRunning, fShift,
                   fCount, fI, fApplied, fVariant>>
    /\ UNCHANGED nonFilterVars

\* applyChannelShift, lines 292-306
ChannelShiftBegin ==
    /\ Enter("channelShift")
    /\ \E rawRed, coinRed, dirRed, rawBlue, coinBlue, dirBlue, rawCount
            \in FilterDraws :
          BeginLoop(ChanceInteger(rawCount, 1, 3),
                    [red |-> ShiftAmount(rawRed, coinRed, dirRed, 8000, 42000),
                     blue |-> ShiftAmount(rawBlue, coinBlue, dirBlue,
                                          5000, 38000)],
                    NoVariant)

\* applyChannelShift, lines 308-327: one region
ChannelShiftRegion ==
    \E rawStart, rawLength \in FilterDraws :
       LET startY == StartY(rawStart, fHeight)
           endY == MathMin(fHeight, startY + ChanceInteger(rawLength, 50, 200))
       IN  Iterate("channelShift",
                   ShiftRegion(fPixels, fWidth, fChannels, fShift, endY,
                               startY, 0),
                   ShiftWrites(fWidth, fChannels, startY, endY))

\* line 229 calls applyDataMosh, whichever variant the caller of
\* applyGlitchEffects means to run; the function bound to the name runs,
\* here from its line 735
DataMoshBegin ==
    /\ Enter("dataMosh")
    /\ Bound(DataMoshDeclarations) = "naive"
    /\ \E raw \in FilterDraws, wanted \in {"quality", "naive"} :
          BeginLoop(ChanceInteger(raw, 20, 100), NoShift,
                    [wanted |-> wanted, ran |-> Bound(DataMoshDeclarations)])

\* applyDataMosh, lines 736-744: one corruption
DataMoshBlock ==
    \E rawSrc, rawDest, rawSize \in FilterDraws :
       LET srcIdx == ChanceInteger(rawSrc, 0, MaxIndex(fPixels, fChannels))
           destIdx == ChanceInteger(rawDest, 0, MaxIndex(fPixels, fChannels))
           blockSize == ChanceInteger(rawSize, 1, 20)
       IN  Iterate("dataMosh",
                   CopyBlock(fPixels, srcIdx, destIdx, blockSize, 0),
                   CopyWrites(fPixels, srcIdx, destIdx, blockSize))

\* applyScanlines, lines 748-761
Scanlines ==
    /\ Enter("scanlines")
    /\ \E rawSpacing, rawIntensity, rawStart \in FilterDraws :
          LET scanlineSpacing == ChanceInteger(rawSpacing, 2, 6)
              intensity == ChanceFloating(rawIntensity, 3000, 8000)
              startY == ChanceInteger(rawStart, 0, 3)
          IN  Return(ScanLoop(fPixels, fWidth, fHeight, fChannels,
                              scanlineSpacing, intensity, startY, 0),
                     ScanWrites(fWidth, fHeight, fChannels, scanlineSpacing,
                                startY))

\* applyInterlace, lines 764-777
Interlace ==
    /\ Enter("interlace")
    /\ \E raws \in [1..((fHeight + 1) \div 2) -> FilterDraws] :
          LET offsets == [k \in DOMAIN raws |-> ChanceInteger(raws[k], -3, 3)]
          IN  Return(InterlaceLoop(fPixels, fWidth, fHeight, fChannels,
                                   offsets, 0, 0),
                     InterlaceWrites(fWidth, fHeight, fChannels))

\* applyNoise, line 781
NoiseBegin ==
    /\ Enter("noise")
    /\ \E raw \in FilterDraws :
          BeginLoop(ChanceInteger(raw, 100, 500), NoShift, NoVariant)

\* applyNoise, lines 782-787: one sample
NoiseSample ==
    \E rawIdx, rawValue, rawChannel \in FilterDraws :
       LET idx == ChanceInteger(rawIdx, 0, MaxIndex(fPixels, fChannels))
           noiseValue == ChanceInteger(rawValue, 0, 255)
           channelChoice == ChanceInteger(rawChannel, 0, 2)
       IN  Iterate("noise", Put(fPixels, idx + channelChoice, noiseValue),
                   {idx + channelChoice})

\* applyMirror, lines 791-807
Mirror ==
    /\ Enter("mirror")
    /\ \E rawY, rawDirection \in FilterDraws :
          LET mirrorY == ChanceInteger(rawY, Floor30(fHeight), Floor70(fHeight))
              mirrorDirection == IF ChanceBool(rawDirection, 50, 1) THEN 1
                                 ELSE -1
          IN  Return(MirrorLoop(fPixels, fWidth, fHeight, fChannels, mirrorY,
                                mirrorDirection, 0, 0),
                     MirrorWrites(fWidth, fHeight, fChannels, mirrorY,
                                  mirrorDirection))

NextFilter ==
    \/ SkipFilterIf
    \/ ChannelShiftBegin
    \/ ChannelShiftRegion
    \/ DataMoshBegin
    \/ DataMoshBlock
    \/ Scanlines
    \/ Interlace
    \/ NoiseBegin
    \/ NoiseSample
    \/ Mirror

-----------------------------------------------------------------------------
(* seededRandom of generateConstellation (the generate.js listed in
   README.md): two generators on the seed of one quote *)

Multiplier == 9301
Increment == 49297
Modulus == 233280

\* the seeds: hashString of the strings, and the largest value it returns
LcgSeeds == {HashString(str) : str \in Strings} \cup {MathAbs(-2147483647 - 1)}

\* n % 233280 for the number n = hi * 65536 + lo
ModModulus(n) ==
    (((((n.hi * 256) % Modulus) * 256) % Modulus) + n.lo) % Modulus

\* (seedValue * 9301 + 49297) % 233280: all of it is below 2^53 and exact
\* in doubles, so it is the remainder of the integers; 9301 = 9000 + 301
Lcg(seedValue) ==
    LET r == ModModulus(seedValue)
    IN  Num((((r * 9000) % Modulus) + ((r * (Multiplier - 9000)) % Modulus)
             + Increment) % Modulus)

\* let seedValue = seed: the variable a generator reads and assigns
SeedValueShared(values, g) == values[1]
SeedValue(values, g) == values[g]

Generators == 1..2

InitLcg ==
    /\ lSeed \in LcgSeeds
    /\ lValue = [g \in Generators |-> lSeed]
    /\ lDrawn = [g \in Generators |-> <<>>]

\* no constellation is being generated
LcgIdle == lSeed = NoSeed /\ lValue = <<>> /\ lDrawn = <<>>

\* seededRandom() of generator g: the new seedValue is kept, and returned
\* over 233280
SeededRandom(g) ==
    /\ Len(lDrawn[g]) < MaxDraws
    /\ LET next == Lcg(SeedValue(lValue, g))
       IN  /\ lValue' = [lValue EXCEPT ![g] = next]
           /\ lDrawn' = [lDrawn EXCEPT ![g] = Append(@, next)]
    /\ UNCHANGED lSeed
    /\ UNCHANGED nonLcgVars

NextLcg == \E g \in Generators : SeededRandom(g)

-----------------------------------------------------------------------------
(* PerlinNoise.noise called once on a constructed table *)

\* the tables generatePermutation can return: every permutation, doubled
Shuffles ==
    {p \in [1..PermSize -> 0..(PermSize - 1)] :
        \A j, k \in 1..PermSize : j # k => p[j] # p[k]}

\* the coordinates given, in units of 1 / CoordUnit: below zero, within the
\* table and beyond it
NoiseCoords == (0 - CoordUnit * PermSize - 1)..(CoordUnit * PermSize + 1)

NoRead == <<>>

InitNoise ==
    /\ nTable \in {p \o p : p \in Shuffles}
    /\ nX = 0 /\ nY = 0
    /\ nReads = NoRead

\* no noise is called
NoiseIdle == nTable = <<>> /\ nX = 0 /\ nY = 0 /\ nReads = NoRead

\* noise(x, y), lines 63-92: the indices it reads the table at
Noise ==
    /\ nReads = NoRead
    /\ \E xq, yq \in NoiseCoords :
          /\ nX' = xq /\ nY' = yq
          /\ nReads' = NoiseReads(nTable, xq, yq)
    /\ UNCHANGED nTable
    /\ UNCHANGED nonNoiseVars

NextNoise == Noise

-----------------------------------------------------------------------------
(* the applyDataMosh declared at line 333 of lib/pixel-glitch.js, applied to
   one image *)

MaxAttempts == 8
EnoughVariation == 3
BrightnessStep == 20

\* the images: one colour, and a bright sample at every odd x and odd y
Uniform(x, y) == 128
Dots(x, y) == IF x % 2 = 1 /\ y % 2 = 1 THEN 255 ELSE 0

ImageOf(kind, x, y) == IF kind = "uniform" THEN Uniform(x, y) ELSE Dots(x, y)

\* the samples of the image, row by row, as a sequence
Image(kind, width, height, channels) ==
    SubSeq([k \in 1..(width * height * channels) |->
               ImageOf(kind, ((k - 1) \div channels) % width,
                       ((k - 1) \div channels) \div width)],
           1, width * height * channels)

\* pixels[idx] + pixels[idx + 1] + pixels[idx + 2], three times the
\* brightness
Sum3(buf, idx) == Sample(buf, idx) + Sample(buf, idx + 1) + Sample(buf, idx + 2)

\* the body of the sampling loops at (sx, sy): 1 when both indices pass the
\* test of line 368 and the brightnesses differ by more than 20 (sums by more
\* than 60, the same for the sums of the images here)
VariationAt(buf, width, channels, sourceX, sourceY, sx, sy) ==
    LET idx1 == ((sourceY + sy) * width + (sourceX + sx)) * channels
        idx2 == ((sourceY + sy + 1) * width + (sourceX + sx + 1)) * channels
        diff == Sum3(buf, idx1) - Sum3(buf, idx2)
    IN  IF idx1 < Len(buf) - 3 /\ idx2 < Len(buf) - 3
           /\ (diff > 3 * BrightnessStep \/ 0 - diff > 3 * BrightnessStep)
        THEN 1 ELSE 0

RECURSIVE SumOver(_, _, _, _, _, _, _)
SumOver(buf, width, channels, sourceX, sourceY, sampleSize, n) ==
    IF n = 0 THEN 0
    ELSE LET half == (sampleSize + 1) \div 2
             sx == 2 * ((n - 1) % half)
             sy == 2 * ((n - 1) \div half)
         IN  VariationAt(buf, width, channels, sourceX, sourceY, sx, sy)
             + SumOver(buf, width, channels, sourceX, sourceY, sampleSize,
                       n - 1)

\* variationCount after the loops over sy and sx in 0, 2, .. below
\* sampleSize = Math.min(blockSize, 8)
VariationCount(buf, width, channels, sourceX, sourceY, blockSize) ==
    LET sampleSize == MathMin(blockSize, 8)
        half == (sampleSize + 1) \div 2
    IN  SumOver(buf, width, channels, sourceX, sourceY, sampleSize,
                half * half)

\* while (!hasGoodSource && attempts < 8)
RetryOnceMore(hasGoodSource, attempts) ==
    ~hasGoodSource /\ attempts <= MaxAttempts
Retry(hasGoodSource, attempts) == ~hasGoodSource /\ attempts < MaxAttempts

\* Math.floor(pixels[destIdx + c] * (1 - blendStrength)
\*            + pixels[srcIdx + c] * blendStrength), blendStrength in units
\* of 1/10000
BlendSample(dest, src, blendStrength) ==
    (dest * (10000 - blendStrength) + src * blendStrength) \div 10000

\* the loops over dx and c of row dy, from the n-th sample of the row on
RECURSIVE BlendRow(_, _, _, _, _, _, _, _)
BlendRow(buf, width, channels, source, blockSize, blendStrength, dy, n) ==
    IF n >= blockSize * channels THEN buf
    ELSE LET c == n % channels
             dx == n \div channels
             srcIdx == ((source.sourceY + dy) * width + (source.sourceX + dx))
                           * channels
             destIdx == ((source.destY + dy) * width + (source.destX + dx))
                            * channels
             \* both blocks lie within the image
             next == [buf EXCEPT ![destIdx + c + 1] =
                         ToUint8(BlendSample(buf[destIdx + c + 1],
                                             buf[srcIdx + c + 1],
                                             blendStrength))]
         \* the test makes the buffer a value before the next iteration
         IN  IF next[1] \in Int
             THEN BlendRow(next, width, channels, source, blockSize,
                           blendStrength, dy, n + 1)
             ELSE next

\* the loop over dy, from row dy on
RECURSIVE BlendLoop(_, _, _, _, _, _, _)
BlendLoop(buf, width, channels, source, blockSize, blendStrength, dy) ==
    IF dy >= blockSize THEN buf
    ELSE LET next == BlendRow(buf, width, channels, source, blockSize,
                              blendStrength, dy, 0)
         IN  IF next[1] \in Int
             THEN BlendLoop(next, width, channels, source, blockSize,
                            blendStrength, dy + 1)
             ELSE next

NoSource ==
    [sourceX |-> 0, sourceY |-> 0, destX |-> 0, destY |-> 0,
     variationCount |-> 0]

\* the values this.random() takes here, in units of 1 / RandomUnit
MoshDraws == {0, 99}

InitMosh ==
    /\ dWidth = MoshSide /\ dHeight = MoshSide
    /\ dChannels \in {3, 4}
    /\ \E kind \in {"uniform", "dots"} :
          dOrig = Image(kind, dWidth, dHeight, dChannels)
    /\ dPixels = dOrig
    /\ dPc = "start"
    /\ dCount = 0 /\ dI = 0 /\ dMin = 0 /\ dMax = 0
    /\ dBlockSize = 0 /\ dAttempts = 0
    /\ dSource = NoSource

\* the function is not running
MoshIdle ==
    /\ dWidth = 0 /\ dHeight = 0 /\ dChannels = 0 /\ dOrig = <<>>
    /\ dPixels = <<>> /\ dPc = "" /\ dCount = 0 /\ dI = 0 /\ dMin = 0
    /\ dMax = 0 /\ dBlockSize = 0 /\ dAttempts = 0 /\ dSource = NoSource

\* lines 334-343
MoshBegin ==
    /\ dPc = "start"
    /\ \E rawCount, rawMin, rawMax, rawChaos \in MoshDraws :
          LET chaos == ChanceBool(rawChaos, 2, 10)
              times == IF chaos THEN 3 ELSE 1
              moshCount == ChanceInteger(rawCount, 1, 2)
                               * (IF chaos THEN 6 ELSE 1)
          IN  /\ dCount' = moshCount
              /\ dMin' = ChanceFloating(rawMin, 80000, 150000) * times
              /\ dMax' = ChanceFloating(rawMax, 200000, 350000) * times
    /\ dI' = 0
    /\ dPc' = "block"
    /\ UNCHANGED <<dWidth, dHeight, dChannels, dOrig, dPixels, dBlockSize,
                   dAttempts, dSource>>
    /\ UNCHANGED nonMoshVars

\* lines 345-351: the next block starts
MoshBlock ==
    /\ dPc = "block" /\ dI < dCount
    /\ \E raw \in MoshDraws :
          dBlockSize' = MathRound(ChanceFloating(raw, dMin, dMax), 10000)
    /\ dAttempts' = 0
    /\ dSource' = NoSource
    /\ dPc' = "search"
    /\ UNCHANGED <<dWidth, dHeight, dChannels, dOrig, dPixels, dCount, dI,
                   dMin, dMax>>
    /\ UNCHANGED nonMoshVars

\* the loop over the blocks is over
MoshReturn ==
    /\ dPc = "block" /\ ~(dI < dCount)
    /\ dPc' = "returned"
    /\ UNCHANGED <<dWidth, dHeight, dChannels, dOrig, dPixels, dCount, dI,
                   dMin, dMax, dBlockSize, dAttempts, dSource>>
    /\ UNCHANGED nonMoshVars

\* line 354 or 355: chance.integer throws "Min cannot be greater than Max"
\* when the block is larger than the image
MoshAttemptThrows ==
    /\ dPc = "search"
    /\ RangeError(0, dWidth - dBlockSize) \/ RangeError(0, dHeight - dBlockSize)
    /\ dPc' = "thrown"
    /\ UNCHANGED <<dWidth, dHeight, dChannels, dOrig, dPixels, dCount, dI,
                   dMin, dMax, dBlockSize, dAttempts, dSource>>
    /\ UNCHANGED nonMoshVars

\* lines 353-381: one pass of the do-while loop
MoshAttempt ==
    /\ dPc = "search"
    /\ ~RangeError(0, dWidth - dBlockSize)
    /\ ~RangeError(0, dHeight - dBlockSize)
    /\ \E rawSX, rawSY \in MoshDraws :
          \E variationCount \in
                {VariationCount(dPixels, dWidth, dChannels,
                                ChanceInteger(rawSX, 0, dWidth - dBlockSize),
                                ChanceInteger(rawSY, 0, dHeight - dBlockSize),
                                dBlockSize)} :
             LET hasGoodSource == variationCount >= EnoughVariation
             IN  /\ \E rawDX, rawDY \in MoshDraws :
                       dSource' =
                          [sourceX |->
                              ChanceInteger(rawSX, 0, dWidth - dBlockSize),
                           sourceY |->
                              ChanceInteger(rawSY, 0, dHeight - dBlockSize),
                           destX |->
                              ChanceInteger(rawDX, 0, dWidth - dBlockSize),
                           destY |->
                              ChanceInteger(rawDY, 0, dHeight - dBlockSize),
                           variationCount |-> variationCount]
                 /\ dPc' = IF Retry(hasGoodSource, dAttempts + 1)
                           THEN "search"
                           ELSE IF hasGoodSource THEN "blend" ELSE "skip"
    /\ dAttempts' = dAttempts + 1
    /\ UNCHANGED <<dWidth, dHeight, dChannels, dOrig, dPixels, dCount, dI,
                   dMin, dMax, dBlockSize>>
    /\ UNCHANGED nonMoshVars

\* line 384: if (!hasGoodSource) continue
MoshSkip ==
    /\ dPc = "skip"
    /\ dI' = dI + 1
    /\ dPc' = "block"
    /\ UNCHANGED <<dWidth, dHeight, dChannels, dOrig, dPixels, dCount, dMin,
                   dMax, dBlockSize, dAttempts, dSource>>
    /\ UNCHANGED nonMoshVars

\* lines 387-401: the source block is blended into the destination block
MoshBlend ==
    /\ dPc = "blend"
    /\ \E raw \in MoshDraws :
          dPixels' = BlendLoop(dPixels, dWidth, dChannels, dSource, dBlockSize,
                               ChanceFloating(raw, 4000, 8000), 0)
    /\ dI' = dI + 1
    /\ dPc' = "block"
    /\ UNCHANGED <<dWidth, dHeight, dChannels, dOrig, dCount, dMin, dMax,
                   dBlockSize, dAttempts, dSource>>
    /\ UNCHANGED nonMoshVars

NextMosh ==
    \/ MoshBegin
    \/ MoshBlock
    \/ MoshReturn
    \/ MoshAttemptThrows
    \/ MoshAttempt
    \/ MoshSkip
    \/ MoshBlend

-----------------------------------------------------------------------------
(* Specifications *)

\* hashString called on one string
InitHash ==
    /\ hText \in Strings
    /\ HashStart
    /\ GlitchIdle
    /\ SortIdle
    /\ ColorIdle
    /\ PerlinIdle
    /\ RunsIdle
    /\ KeyIdle
    /\ OverlayIdle
    /\ PerturbIdle
    /\ BatchIdle
    /\ FilterIdle
    /\ LcgIdle
    /\ NoiseIdle
    /\ MoshIdle
SpecHash == InitHash /\ [][NextHash]_vars

\* one call of applyGlitchEffects
Init ==
    /\ InitGlitch
    /\ HashIdle
    /\ SortIdle
    /\ ColorIdle
    /\ PerlinIdle
    /\ RunsIdle
    /\ KeyIdle
    /\ OverlayIdle
    /\ PerturbIdle
    /\ BatchIdle
    /\ FilterIdle
    /\ LcgIdle
    /\ NoiseIdle
    /\ MoshIdle
Spec == Init /\ [][Next]_vars

\* the pixel-sort filters of one mix, run on one image
InitSortSpec ==
    /\ InitSort
    /\ HashIdle
    /\ GlitchIdle
    /\ ColorIdle
    /\ PerlinIdle
    /\ RunsIdle
    /\ KeyIdle
    /\ OverlayIdle
    /\ PerturbIdle
    /\ BatchIdle
    /\ FilterIdle
    /\ LcgIdle
    /\ NoiseIdle
    /\ MoshIdle
SpecSort == InitSortSpec /\ [][NextSort]_vars

\* one call of applyColorShift
InitColorSpec ==
    /\ InitColor
    /\ HashIdle
    /\ GlitchIdle
    /\ SortIdle
    /\ PerlinIdle
    /\ RunsIdle
    /\ KeyIdle
    /\ OverlayIdle
    /\ PerturbIdle
    /\ BatchIdle
    /\ FilterIdle
    /\ LcgIdle
    /\ NoiseIdle
    /\ MoshIdle
SpecColor == InitColorSpec /\ [][NextColor]_vars

\* one PerlinNoise: its construction, then one call of generateMask
InitPerlinSpec ==
    /\ InitPerlin
    /\ HashIdle
    /\ GlitchIdle
    /\ SortIdle
    /\ ColorIdle
    /\ RunsIdle
    /\ KeyIdle
    /\ OverlayIdle
    /\ PerturbIdle
    /\ BatchIdle
    /\ FilterIdle
    /\ LcgIdle
    /\ NoiseIdle
    /\ MoshIdle
SpecPerlin == InitPerlinSpec /\ [][NextPerlin]_vars

\* two calls of applyGlitchEffects of lib/pixel-glitch.js on one image and one quote
InitRunsSpec ==
    /\ InitRuns
    /\ HashIdle
    /\ GlitchIdle
    /\ SortIdle
    /\ ColorIdle
    /\ PerlinIdle
    /\ KeyIdle
    /\ OverlayIdle
    /\ PerturbIdle
    /\ BatchIdle
    /\ FilterIdle
    /\ LcgIdle
    /\ NoiseIdle
    /\ MoshIdle
SpecRuns == InitRunsSpec /\ [][NextRuns]_vars

\* the key word of one quote and its crypto star
InitKeySpec ==
    /\ InitKey
    /\ HashIdle
    /\ GlitchIdle
    /\ SortIdle
    /\ ColorIdle
    /\ PerlinIdle
    /\ RunsIdle
    /\ OverlayIdle
    /\ PerturbIdle
    /\ BatchIdle
    /\ FilterIdle
    /\ LcgIdle
    /\ NoiseIdle
    /\ MoshIdle
SpecKeyWord == InitKeySpec /\ [][NextKey]_vars

\* two calls of generateConstellation on one quote and one templateBounds
InitOverlaySpec ==
    /\ InitOverlay
    /\ HashIdle
    /\ GlitchIdle
    /\ SortIdle
    /\ ColorIdle
    /\ PerlinIdle
    /\ RunsIdle
    /\ KeyIdle
    /\ PerturbIdle
    /\ BatchIdle
    /\ FilterIdle
    /\ LcgIdle
    /\ NoiseIdle
    /\ MoshIdle
SpecOverlay == InitOverlaySpec /\ [][NextOverlay]_vars

\* two calls of the colour perturbation with the same base colour, seed and likelihood
InitPerturbSpec ==
    /\ InitPerturb
    /\ HashIdle
    /\ GlitchIdle
    /\ SortIdle
    /\ ColorIdle
    /\ PerlinIdle
    /\ RunsIdle
    /\ KeyIdle
    /\ OverlayIdle
    /\ BatchIdle
    /\ FilterIdle
    /\ LcgIdle
    /\ NoiseIdle
    /\ MoshIdle
SpecPerturb == InitPerturbSpec /\ [][NextPerturb]_vars

\* one run of main of generate.js; sequential code goes on while it can
InitBatchSpec ==
    /\ InitBatch
    /\ HashIdle
    /\ GlitchIdle
    /\ SortIdle
    /\ ColorIdle
    /\ PerlinIdle
    /\ RunsIdle
    /\ KeyIdle
    /\ OverlayIdle
    /\ PerturbIdle
    /\ FilterIdle
    /\ LcgIdle
    /\ NoiseIdle
    /\ MoshIdle
SpecBatch == InitBatchSpec /\ [][NextBatch]_vars /\ WF_vars(NextBatch)

\* the filters of one mix, other than the pixel sorts and the colour shift, run on one image
InitFilterSpec ==
    /\ InitFilter
    /\ HashIdle
    /\ GlitchIdle
    /\ SortIdle
    /\ ColorIdle
    /\ PerlinIdle
    /\ RunsIdle
    /\ KeyIdle
    /\ OverlayIdle
    /\ PerturbIdle
    /\ BatchIdle
    /\ LcgIdle
    /\ NoiseIdle
    /\ MoshIdle
SpecFilter == InitFilterSpec /\ [][NextFilter]_vars

\* two seededRandom generators started from the seed of one quote
InitLcgSpec ==
    /\ InitLcg
    /\ HashIdle
    /\ GlitchIdle
    /\ SortIdle
    /\ ColorIdle
    /\ PerlinIdle
    /\ RunsIdle
    /\ KeyIdle
    /\ OverlayIdle
    /\ PerturbIdle
    /\ BatchIdle
    /\ FilterIdle
    /\ NoiseIdle
    /\ MoshIdle
SpecLcg == InitLcgSpec /\ [][NextLcg]_vars

\* one call of noise on a constructed PerlinNoise
InitNoiseSpec ==
    /\ InitNoise
    /\ HashIdle
    /\ GlitchIdle
    /\ SortIdle
    /\ ColorIdle
    /\ PerlinIdle
    /\ RunsIdle
    /\ KeyIdle
    /\ OverlayIdle
    /\ PerturbIdle
    /\ BatchIdle
    /\ FilterIdle
    /\ LcgIdle
    /\ MoshIdle
SpecNoise == InitNoiseSpec /\ [][NextNoise]_vars

\* the applyDataMosh declared at line 333 applied to one image
InitMoshSpec ==
    /\ InitMosh
    /\ HashIdle
    /\ GlitchIdle
    /\ SortIdle
    /\ ColorIdle
    /\ PerlinIdle
    /\ RunsIdle
    /\ KeyIdle
    /\ OverlayIdle
    /\ PerturbIdle
    /\ BatchIdle
    /\ FilterIdle
    /\ LcgIdle
    /\ NoiseIdle
SpecMosh == InitMoshSpec /\ [][NextMosh]_vars

-----------------------------------------------------------------------------
(* Claims about applyGlitchEffects and getGlitchMix (specification Spec) *)

Range(seq) == {seq[k] : k \in 1..Len(seq)}

\* the order the claims name: channel shift, horizontal sort, vertical sort,
\* data mosh, scanlines, interlace, noise, colour shift, mirror
CanonicalOrder ==
    <<"channel_shift", "pixel_sort_horizontal", "pixel_sort_vertical",
      "data_mosh", "scanlines", "interlace", "noise", "color_shift", "mirror">>

Pos(e) == CHOOSE k \in 1..Len(CanonicalOrder) : CanonicalOrder[k] = e

\* the call of lib/pixel-glitch.js has chosen its mix
MixChosen ==
    /\ gEngine = "lib"
    /\ \/ gPc \in {"filters", "encode"}
       \/ gThrewAt \in {"filter", "encode"}
       \/ gResult.value.buf = "encoded"

(* C2: for every outcome of the seeded coins and both values of useMix the *)
(* mix is non-empty; with useMix it holds every effect whose coin came up  *)
(* true, plus the colour shift exactly when all nine coins failed; without *)
(* useMix it is exactly {colour shift}; a call that completes has applied  *)
(* exactly the mix, which is at least one filter.                          *)
GlitchMixNonEmpty ==
    MixChosen =>
        /\ gMix # {}
        /\ gMix \subseteq Effects
        /\ ~gUseMix => gMix = {"color_shift"}
        /\ gUseMix =>
              /\ gFlips \subseteq gMix
              /\ gMix \ gFlips = IF gFlips = {} THEN {"color_shift"} ELSE {}
        /\ gResult.value.buf = "encoded" =>
              /\ Range(gResult.value.applied) = gMix
              /\ Len(gResult.value.applied) >= 1

\* all nine coins failed and the call returned an image with the colour
\* shift applied
GlitchMixWitness ==
    /\ gEngine = "lib" /\ gUseMix /\ gPc = "done"
    /\ gFlips = {}
    /\ gResult = Resolved(Encoded(<<"color_shift">>))

(* C3: the filters run in the canonical order whatever the mix: a filter   *)
(* that has run is selected, ran once, and ran after every selected filter *)
(* that precedes it in the order; when the chain has been walked with no   *)
(* error every selected filter has run.                                    *)
FiltersInCanonicalOrder ==
    gEngine = "lib" =>
        /\ \A k \in 1..Len(gApplied) :
              /\ gApplied[k] \in gMix
              /\ \A j \in 1..(k - 1) : Pos(gApplied[j]) < Pos(gApplied[k])
              /\ \A e \in gMix :
                    Pos(e) < Pos(gApplied[k])
                        => \E j \in 1..(k - 1) : gApplied[j] = e
        /\ (gPc = "encode" \/ gResult.value.buf = "encoded") =>
              \A e \in gMix : Cardinality({k \in 1..Len(gApplied) : gApplied[k] = e}) = 1

\* a mix holding scanlines, noise and colour shift has been applied and
\* the image returned
FiltersOrderWitness ==
    /\ gEngine = "lib" /\ gUseMix /\ gPc = "done"
    /\ gResult.value.buf = "encoded"
    /\ {"scanlines", "noise", "color_shift"} \subseteq gMix
    /\ Len(gResult.value.applied) = Cardinality(gMix)

(* C4: when decoding, a filter or encoding raised an error inside the try  *)
(* block (of either applyGlitchEffects), the call resolves, and with the   *)
(* very buffer it was given: never the copy the filters wrote to.          *)
ErrorsReturnOriginal ==
    (gPc = "done" /\ gThrewAt # "none") => gResult = Resolved(ImageBuffer)

\* a filter raised an error after two others had written to the copy
ErrorsReturnOriginalWitness ==
    /\ gPc = "done" /\ gThrewAt = "filter"
    /\ Len(gApplied) >= 2
    /\ gResult = Resolved(ImageBuffer)

(* C5, as claimed: every invalid input, a value that is no Buffer          *)
(* included, resolves with the input untouched.                            *)
InvalidInputFailsSoft ==
    (gPc = "done" /\ (~gInput.isBuffer \/ ~gInput.decodable))
        => gResult = Resolved(ImageBuffer)

(* C5, amended: a Buffer that cannot be decoded resolves with the input    *)
(* untouched (after a warning); a value that is no Buffer makes            *)
(* applyGlitchEffects of lib/pixel-glitch.js warn and raise: its promise   *)
(* is rejected.                                                            *)
MalformedBufferFailsSoft ==
    gPc = "done" =>
        /\ (gInput.isBuffer /\ ~gInput.decodable)
              => (gResult = Resolved(ImageBuffer) /\ gWarned)
        /\ ~gInput.isBuffer
              => (gResult = Rejected /\ gWarned /\ gThrewAt = "none")

\* an undecodable Buffer went through lib/pixel-glitch.js
MalformedBufferWitness ==
    /\ gEngine = "lib" /\ gPc = "done"
    /\ gInput.isBuffer /\ ~gInput.decodable
    /\ gThrewAt = "decode"

(* C6, as claimed: when a selected filter throws, it alone is skipped:     *)
(* every other selected filter is applied and the glitched image returned. *)
FilterFailureIsolated ==
    (gPc = "done" /\ gThrewAt = "filter") =>
        /\ \A e \in gMix \ {gFailed} : e \in Range(gApplied)
        /\ gResult = Resolved(Encoded(gApplied))

(* C6, amended: when a selected filter throws, the glitch of the image is  *)
(* abandoned: control goes to the only handler, no filter after the        *)
(* failing one runs, and the call returns the buffer it was given.         *)
FilterFailureAbandonsImage ==
    gThrewAt = "filter" =>
        /\ gPc \in {"catch", "done"}
        /\ gFailed \in gMix
        /\ Range(gApplied) = {e \in gMix : Pos(e) < Pos(gFailed)}
        /\ gPc = "done" => gResult = Resolved(ImageBuffer)

\* a filter threw while selected filters were still to run
FilterFailureWitness ==
    /\ gPc = "done" /\ gThrewAt = "filter"
    /\ \E e \in gMix : Pos(e) > Pos(gFailed)
    /\ gApplied # <<>>

-----------------------------------------------------------------------------
(* Claims about the pixel-sort filters (specification SpecSort) *)

BagOfSeq(seq) ==
    LET values == Range(seq)
    IN  [v \in values |-> Cardinality({k \in DOMAIN seq : seq[k] = v})]

\* the (R,G,B) value of the k-th pixel of segment seg
SegmentPixel(buf, seg, k) ==
    LET idx == IF seg.dir = "H"
               THEN (seg.line * sWidth + seg.start + k - 1) * sChannels
               ELSE ((seg.start + k - 1) * sWidth + seg.line) * sChannels
    IN  <<buf[idx + 1], buf[idx + 2], buf[idx + 3]>>

\* the (R,G,B) values of the pixels of segment seg, in buffer order
SegmentRGB(buf, seg) ==
    [k \in 1..(seg.end - seg.start) |-> SegmentPixel(buf, seg, k)]

\* their brightness sums R+G+B
SegmentSums(buf, seg) ==
    [k \in 1..(seg.end - seg.start) |->
        LET px == SegmentPixel(buf, seg, k) IN px[1] + px[2] + px[3]]

\* sample k of the buffer belongs to a pixel of segment seg
InSegment(k, seg) ==
    LET px == k \div sChannels
        x == px % sWidth
        y == px \div sWidth
    IN  IF seg.dir = "H"
        THEN y = seg.line /\ x >= seg.start /\ x < seg.end
        ELSE x = seg.line /\ y >= seg.start /\ y < seg.end

IsAlpha(k) == sChannels = 4 /\ k % sChannels = 3

(* C7: every iteration of applyPixelSortH and applyPixelSortV leaves in    *)
(* the segment it sorts the multiset of (R,G,B) values, and so the         *)
(* multiset of brightness sums R+G+B, that was there before it.            *)
SortKeepsMultiset ==
    [][sI' = sI + 1 =>
          /\ BagOfSeq(SegmentRGB(sPixels', sSeg'))
                = BagOfSeq(SegmentRGB(sPixels, sSeg'))
          /\ BagOfSeq(SegmentSums(sPixels', sSeg'))
                = BagOfSeq(SegmentSums(sPixels, sSeg'))]_vars

\* a segment of at least three pixels has been sorted and the buffer changed
SortKeepsMultisetWitness ==
    /\ sSeg.dir = "H"
    /\ sSeg.end - sSeg.start >= 3
    /\ sPixels # sOrig

(* C8: every iteration of applyPixelSortH and applyPixelSortV leaves every *)
(* alpha sample and every sample of a pixel outside the segment it sorts   *)
(* as it was, and the buffer as long as it was.                            *)
SortFrame ==
    [][sI' = sI + 1 =>
          /\ Len(sPixels') = Len(sPixels)
          /\ \A k \in 0..(Len(sPixels) - 1) :
                (IsAlpha(k) \/ ~InSegment(k, sSeg'))
                    => sPixels'[k + 1] = sPixels[k + 1]]_vars

\* a column segment that leaves out the first row has been sorted in an
\* image with an alpha channel, and the buffer changed
SortFrameWitness ==
    /\ sSeg.dir = "V"
    /\ sChannels = 4
    /\ sSeg.start > 0
    /\ sPixels # sOrig

-----------------------------------------------------------------------------
(* Claims about applyColorShift (specification SpecColor) *)

\* the pixel that sample k of the buffer belongs to
PixelOf(k) == k \div cChannels

(* C9: whatever the strategy and its threshold, a pixel whose mask value   *)
(* is not greater than the threshold keeps its samples, and no alpha       *)
(* sample ever changes; so with an all-zero mask the buffer stays as it    *)
(* was given.                                                              *)
ColorShiftFrame ==
    (cStrategy # "none") =>
        /\ Len(cPixels) = Len(cOrig)
        /\ \A k \in 0..(Len(cPixels) - 1) :
              \/ cPixels[k + 1] = cOrig[k + 1]
              \/ /\ cMask[PixelOf(k) + 1] > cThreshold
                 /\ k % cChannels < 3
        /\ (\A m \in 1..Len(cMask) : cMask[m] = 0) => cPixels = cOrig

\* the loop is over, it changed a pixel above the threshold, and left a
\* pixel whose mask value equals the threshold in a four-channel image
ColorShiftFrameWitness ==
    /\ cPc = "done"
    /\ cChannels = 4
    /\ cPixels # cOrig
    /\ \E m \in 1..Len(cMask) : cMask[m] = cThreshold

-----------------------------------------------------------------------------
(* Claims about PerlinNoise (specification SpecPerlin) *)

(* C10: every value generateMask has stored in the mask lies within        *)
(* [0,1], whatever the permutation, the size, the scale and the octave     *)
(* count.                                                                  *)
MaskWithinUnitInterval ==
    \A k \in 1..Len(mMask) : mMask[k] >= 0 /\ mMask[k] <= MaskUnit

-----------------------------------------------------------------------------
(* Claims about two runs of applyGlitchEffects (specification SpecRuns) *)

Past(r, pcs) == tRuns[r].pc \in pcs

-----------------------------------------------------------------------------
(* Claims about the key word of the crypto star (specification SpecKeyWord) *)

\* the positions, in the nouns followed by the adjectives, of the words
\* longer than 4 characters
Candidates(all) == {p \in 1..Len(all) : Len(all[p]) > 4}

\* C14: when the key word has been chosen, the crypto star made is that of
\* the longest word among the nouns followed by the adjectives that are
\* longer than 4 characters, the earliest of them when several are longest;
\* when no word is longer than 4 characters no crypto star is made.
KeyWordIsLongestEarliest ==
    kPc = "done" =>
        LET all == kNouns \o kAdjectives
            cands == Candidates(all)
        IN  IF cands = {}
            THEN kStars = <<>>
            ELSE \E p \in cands :
                    /\ \A q \in cands :
                          \/ Len(all[q]) < Len(all[p])
                          \/ Len(all[q]) = Len(all[p]) /\ p <= q
                    /\ kStars = <<CryptoStar(kImpl, all[p], kBounds)>>

\* the key word has been chosen among a word too short, a noun and an
\* adjective of the same greatest length, and a shorter candidate
KeyWordIsLongestEarliestWitness ==
    /\ kPc = "done"
    /\ kNouns = <<WordCode, WordSystem>>
    /\ kAdjectives = <<WordCrows, WordHacker>>
    /\ Len(kStars) = 1

-----------------------------------------------------------------------------
(* Claims about two calls of generateConstellation (specification          *)
(* SpecOverlay)                                                            *)

Returned(r) == oRuns[r].pc \in {"done", "raised"}

IsPrefix(s, t) == Len(s) <= Len(t) /\ s = SubSeq(t, 1, Len(s))

\* C12: the second call, on the same quote and the same bounds, makes the
\* stars of the first call one after the other (coordinates, radii, tags)
\* and returns the same stars and the same connections.
TwoOverlaysAgree ==
    /\ oRuns[2].pc # "start" =>
           /\ oRuns[2].logoInfluence = oRuns[1].logoInfluence
           /\ IsPrefix(oRuns[2].stars, oRuns[1].stars)
    /\ Returned(2) =>
           /\ oRuns[2].stars = oRuns[1].stars
           /\ oRuns[2].connections = oRuns[1].connections
           /\ oRuns[2].pc = oRuns[1].pc

\* both calls have returned a crypto star, other stars and connections
TwoOverlaysAgreeWitness ==
    /\ oRuns[1].pc = "done" /\ oRuns[2].pc = "done"
    /\ Len(oRuns[2].stars) >= 4
    /\ \E k \in 1..Len(oRuns[2].stars) : oRuns[2].stars[k].kind = "crypto"
    /\ \E k \in 1..Len(oRuns[2].stars) : oRuns[2].stars[k].kind = "star"
    /\ oRuns[2].connections # <<>>

\* the square of the distance of two stars of generate.js, in pixels squared
\* times 100
DistanceSquared(a, b) ==
    (a.x - b.x) * (a.x - b.x) + (a.y - b.y) * (a.y - b.y)

\* C13: in the story format of generate.js every connection returned joins
\* two of the stars returned, star to star, and their Euclidean distance is
\* strictly less than connectionThreshold; no connection joins a pair at or
\* beyond the threshold.
ConnectionsBelowThreshold ==
    \A r \in Runs :
        (oImpl = "generate.js" /\ oRuns[r].pc = "done" /\ ~oBounds.isSquare)
        => \A k \in 1..Len(oRuns[r].connections) :
              LET conn == oRuns[r].connections[k]
                  t == ((oQuote.charCount % 25) + 15) * 10
              IN  /\ ~conn.isTextConnection
                  /\ \E i, j \in 1..Len(oRuns[r].stars) :
                        /\ i < j
                        /\ conn.x1 = oRuns[r].stars[i].x
                        /\ conn.y1 = oRuns[r].stars[i].y
                        /\ conn.x2 = oRuns[r].stars[j].x
                        /\ conn.y2 = oRuns[r].stars[j].y
                  /\ DistanceSquared([x |-> conn.x1, y |-> conn.y1],
                                     [x |-> conn.x2, y |-> conn.y2]) < t * t

\* a story overlay has been returned with a connection, and with two stars
\* at or beyond the threshold and no connection between them
ConnectionsBelowThresholdWitness ==
    /\ oImpl = "generate.js" /\ oRuns[1].pc = "done" /\ ~oBounds.isSquare
    /\ oRuns[1].connections # <<>>
    /\ \E i, j \in 1..Len(oRuns[1].stars) :
          /\ i < j
          /\ DistanceSquared(oRuns[1].stars[i], oRuns[1].stars[j])
                 >= (((oQuote.charCount % 25) + 15) * 10)
                        * (((oQuote.charCount % 25) + 15) * 10)
          /\ \A k \in 1..Len(oRuns[1].connections) :
                oRuns[1].connections[k] #
                    Connection(oRuns[1].stars[i], oRuns[1].stars[j], FALSE)

\* the stars of call r that lie inside the bounds
StarsInside(r) ==
    {k \in 1..Len(oRuns[r].stars) :
        /\ oRuns[r].stars[k].x > 0
        /\ oRuns[r].stars[k].x < oBounds.width * 10000
        /\ oRuns[r].stars[k].y > 0
        /\ oRuns[r].stars[k].y < oBounds.height * 10000}

\* C15: when a layout of lib/constellation.js has ended with no star inside
\* the bounds, generateConstellation has returned an overlay with no stars
\* and no connections, and has not raised.
EmptyOverlayIsReturned ==
    \A r \in Runs :
        (oImpl = "lib/constellation.js" /\ Returned(r) /\ StarsInside(r) = {})
        => /\ oRuns[r].pc = "done"
           /\ ~oRuns[r].raised
           /\ oRuns[r].stars = <<>>
           /\ oRuns[r].connections = <<>>

-----------------------------------------------------------------------------
(* Claims about the colour perturbation (specification SpecPerturb) *)

\* C16: called with likelihood 0, the colour perturbation returns the base
\* colour it was given, unchanged, whatever the base colour and the seed.
LikelihoodZeroUnchanged ==
    \A r \in Runs :
        qLikelihood = 0 =>
            /\ qCalls[r].pc # "raised"
            /\ qCalls[r].pc \in {"start", "done"}
            /\ qCalls[r].pc = "done" => qCalls[r].result = qBaseColor

\* the second call with likelihood 0 has returned the base colour, on a
\* seed whose first output is the lowest the generator gives
LikelihoodZeroUnchangedWitness ==
    /\ qLikelihood = 0 /\ Random(qStream, 0) = 0
    /\ qCalls[2].pc = "done" /\ qCalls[2].unchanged
    /\ qCalls[2].result = qBaseColor

\* C17: two calls of the colour perturbation with likelihood 100, the same
\* base colour and the same seed return the same colour, whichever
\* transformation the seed selects.
TwoColorsAgree ==
    (qLikelihood = 100 /\ qCalls[1].pc = "done" /\ qCalls[2].pc = "done")
    => qCalls[2].result = qCalls[1].result

\* the seeded coin weighted by the likelihood succeeds: the first output of
\* the generator, times 100, is below the likelihood
CoinSucceeds == Random(qStream, 0) * 100 < qLikelihood * RandomUnit

\* the call r has gone past its coin
PastCoin(r) == qCalls[r].pc \notin {"start", "raised"}

\* the call r has entered its transformation step: the try block of
\* glitchColor, the orchestrator of sophisticatedColorGlitch
Attempted(r) ==
    \/ qCalls[r].pc \in {"try", "orchestrator", "enhance", "technique"}
    \/ /\ qCalls[r].pc = "done"
       /\ IF qFunction = "glitchColor"
          THEN qCalls[r].caught \/ qCalls[r].glitchType \in 1..12
          ELSE qCalls[r].palette # <<>>

\* C18, as claimed: the unchanged branch is the one taken when the seeded
\* coin weighted by likelihood succeeds, and at likelihood 100 the input
\* colour is always returned unchanged.
UnchangedWhenCoinSucceeds ==
    \A r \in Runs :
        (PastCoin(r) /\ qLikelihood \in 0..100) =>
            /\ qCalls[r].unchanged <=> CoinSucceeds
            /\ (qLikelihood = 100 /\ qCalls[r].pc = "done")
                   => qCalls[r].result = qBaseColor

\* C18, amended: the unchanged branch is the one taken when the seeded coin
\* weighted by likelihood fails, and the transformation step is entered
\* when it succeeds; at likelihood 0 the input colour is always returned
\* unchanged and at likelihood 100 the unchanged branch is never taken.
UnchangedWhenCoinFails ==
    \A r \in Runs :
        (PastCoin(r) /\ qLikelihood \in 0..100) =>
            /\ qCalls[r].unchanged <=> ~CoinSucceeds
            /\ qCalls[r].unchanged =>
                   /\ qCalls[r].pc = "done"
                   /\ qCalls[r].result = qBaseColor
                   /\ ~Attempted(r)
            /\ ~qCalls[r].unchanged => Attempted(r)
            /\ qLikelihood = 0 => qCalls[r].unchanged
            /\ qLikelihood = 100 => ~qCalls[r].unchanged

\* at likelihood 100 the coin has succeeded on the highest first output and
\* sophisticatedColorGlitch has returned a colour other than the input
UnchangedWhenCoinFailsWitness ==
    /\ qFunction = "sophisticatedColorGlitch"
    /\ qLikelihood = 100 /\ Random(qStream, 0) = 95
    /\ qCalls[2].pc = "done" /\ ~qCalls[2].unchanged
    /\ qCalls[2].result # qBaseColor

\* C19: for a likelihood in 0..100 the colour perturbation does not raise,
\* and when the base colour cannot be parsed or a conversion has thrown it
\* returns the base colour value it was given, unchanged.
FailureReturnsBaseColor ==
    \A r \in Runs :
        qLikelihood \in 0..100 =>
            /\ qCalls[r].pc # "raised"
            /\ (qCalls[r].pc = "done"
                    /\ (~Parses(qBaseColor) \/ qCalls[r].caught))
                   => qCalls[r].result = qBaseColor

\* applyTechnique has caught the exception of chroma(color) on a base
\* colour that does not parse, and the call has returned that base colour
FailureReturnsBaseColorWitness ==
    /\ qFunction = "sophisticatedColorGlitch"
    /\ ~Parses(qBaseColor) /\ qLikelihood \in 1..100
    /\ qCalls[2].pc = "done" /\ qCalls[2].technique # ""
    /\ qCalls[2].caught /\ qCalls[2].result = qBaseColor

-----------------------------------------------------------------------------
(* Claims about the palette of ColorOrchestrator (specification            *)
(* SpecPerturb)                                                            *)

\* the angles, in 0..359, by which the hues of the colours of the palette
\* other than base differ from the hue of base
HueAngles(palette, base) ==
    {(palette[k].h - base.h) % 360 :
        k \in {j \in 1..Len(palette) : palette[j] # base}}

\* the palette has 1 to 5 colours, among them the base colour, and the
\* other hues are at the angles given for each rule
PaletteFollows(palette, base, harmonyType, analogous) ==
    /\ Len(palette) \in 1..5
    /\ \E k \in 1..Len(palette) : palette[k] = base
    /\ harmonyType = "triadic" => HueAngles(palette, base) = {120, 240}
    /\ harmonyType = "tetradic" => HueAngles(palette, base) = {90, 180, 270}
    /\ harmonyType = "split_complement" =>
           HueAngles(palette, base) = {150, 210}
    /\ harmonyType = "analogous" => HueAngles(palette, base) = analogous
    /\ harmonyType = "monochromatic" =>
           /\ HueAngles(palette, base) = {0}
           /\ Len(palette) = 5

-----------------------------------------------------------------------------
(* Claims about the batch loop of main (specification SpecBatch) *)

\* the quote x template pairs of the corpus, in the order of the two loops
CorpusOrder ==
    [k \in 1..(Len(bQuotes) * Len(Templates)) |->
        <<((k - 1) \div Len(Templates)) + 1, ((k - 1) % Len(Templates)) + 1>>]

\* the pairs of the items ended so far
AttemptedPairs == [k \in 1..Len(bLog) |-> <<bLog[k].quote, bLog[k].template>>]

\* main has ended: it printed the count, or its promise was rejected
MainEnded == bPc \in {"done", "rejected"}

\* the items ended so far are the first pairs of the corpus, each once and
\* in corpus order; the item at hand is the next pair; main has ended when
\* every pair has been attempted, and not before
ItemsInCorpusOrder ==
    /\ Len(bLog) <= Len(CorpusOrder)
    /\ AttemptedPairs = SubSeq(CorpusOrder, 1, Len(bLog))
    /\ bPc # "rejected"
    /\ MainEnded <=> Len(bLog) = Len(CorpusOrder)
    /\ ~MainEnded =>
           <<bItem.quote, bItem.template>> = CorpusOrder[Len(bLog) + 1]

\* C21: whichever items fail, every quote x template pair is attempted
\* exactly once and in corpus order, a failed item is followed by the next
\* pair, and the loop gets to the end of the corpus.
EveryItemAttempted ==
    /\ []ItemsInCorpusOrder
    /\ <>(bPc = "done" /\ Len(bLog) = Len(CorpusOrder))

\* main has ended after the first item of the last quote failed and the
\* item after it was written
EveryItemAttemptedWitness ==
    /\ bPc = "done"
    /\ Len(bQuotes) = MaxQuotes
    /\ bLog[Len(bLog) - 1].failed
    /\ ~bLog[Len(bLog)].failed
    /\ bLog[Len(bLog)].path # NoPath

\* the templates on which the seed named by field has been taken for the
\* quote at hand
Seeded(field) == {t \in 1..Len(bSeeds) : bSeeds[t][field] # NoSeed}

Written == {k \in 1..Len(bLog) : bLog[k].path # NoPath}

\* C29: no two items of a run write to the same path, so the count printed
\* is the number of distinct files written.
DistinctOutputPaths ==
    /\ \A j, k \in Written : j # k => bLog[j].path # bLog[k].path
    /\ bPc = "done" => bCount = Cardinality({bLog[k].path : k \in Written})

\* C23: while and after the filters of a mix run on a buffer of
\* width x height x channels samples, the buffer keeps exactly that many
\* samples, each in 0..255, and every index a filter has assigned lies in
\* 0..length-1.
FiltersKeepShape ==
    /\ Len(fPixels) = fWidth * fHeight * fChannels
    /\ \A k \in 1..Len(fPixels) : fPixels[k] \in 0..255
    /\ fWritten \subseteq 0..(Len(fPixels) - 1)

\* all six filters have run on a four-channel image of more than one row,
\* and the last one, applyMirror, has assigned samples
FiltersKeepShapeWitness ==
    /\ fNext = Len(FilterChain) + 1
    /\ fApplied = Range(FilterChain)
    /\ fChannels = 4 /\ fHeight > 1
    /\ fWritten # {}

\* C24: when the data-mosh filter is selected, the variant the caller means
\* to run, the naive block copy or the quality blend, is the one that runs:
\* each of the two can be invoked.
WantedVariantRuns ==
    fVariant.ran # "none" => fVariant.ran = fVariant.wanted

\* the number of the limbs hi, lo, for numbers below 2^31
ValueOf(n) == n.hi * 65536 + n.lo

\* seedValue * 9301 + 49297 is below 2^53, so the double holds it exactly
ProductExact(n) == n.hi * Multiplier + Multiplier + 1 <= 2147483647

\* C25: from every seed of hashString, the state of seededRandom is an
\* integer in 0..233279 after every draw, every value returned (the state
\* over 233280) is in [0,1), and two generators started from the same seed
\* return the same sequence.
SeededRandomContract ==
    /\ \A g \in DOMAIN lValue :
          /\ ProductExact(lValue[g])
          /\ Len(lDrawn[g]) > 0 =>
                /\ lValue[g].hi \in 0..3
                /\ ValueOf(lValue[g]) \in 0..(Modulus - 1)
                /\ lValue[g] = lDrawn[g][Len(lDrawn[g])]
          /\ \A k \in 1..Len(lDrawn[g]) :
                /\ 0 <= ValueOf(lDrawn[g][k])
                /\ ValueOf(lDrawn[g][k]) < Modulus
    /\ \A g, h \in DOMAIN lValue :
          \A k \in 1..Len(lDrawn[g]) :
             k <= Len(lDrawn[h]) => lDrawn[g][k] = lDrawn[h][k]

\* both generators have drawn twice from a seed larger than the modulus
SeededRandomContractWitness ==
    /\ lSeed # NoSeed
    /\ lSeed.hi > 3
    /\ \A g \in DOMAIN lValue : Len(lDrawn[g]) >= 2

\* p holds each of 0..n-1 exactly once
IsPermutation(p, n) ==
    /\ Len(p) = n
    /\ \A v \in 0..(n - 1) : Cardinality({k \in 1..n : p[k] = v}) = 1

\* C26: every swap of the Fisher-Yates loop keeps p a permutation of
\* 0..255 (0..PermSize-1 here), and the table the constructor keeps has
\* twice that many entries, the first half a permutation and entry
\* i + 256 equal to entry i.
PermutationTableDoubled ==
    /\ pPc = "shuffle" => IsPermutation(pP, PermSize)
    /\ pPc \in {"built", "mask", "done"} =>
          /\ Len(pTable) = 2 * PermSize
          /\ IsPermutation(SubSeq(pTable, 1, PermSize), PermSize)
          /\ \A i \in 0..(PermSize - 1) :
                Perm(pTable, i + PermSize) = Perm(pTable, i)

\* the constructor has returned a table that is not the identity doubled
PermutationTableDoubledWitness ==
    /\ pPc = "built"
    /\ pTable # Identity \o Identity
    /\ Perm(pTable, 0) # 0

\* C28: whatever the coordinates, negative ones included, every index at
\* which noise reads the permutation table (X, X+1, A, A+1, B, B+1, AA, AB,
\* BA, BB) lies within the doubled table, 0..511 (0..2*PermSize-1 here).
NoiseReadsInTable ==
    /\ nReads # NoRead => Len(nTable) = 2 * PermSize
    /\ \A k \in 1..Len(nReads) : nReads[k] \in 0..(2 * PermSize - 1)

\* noise was called with a negative x and a y in the last cell of the
\* table, and read the last entry of the doubled table
NoiseReadsInTableWitness ==
    /\ nReads # NoRead
    /\ nX < 0
    /\ nY \div CoordUnit = PermSize - 1
    /\ \E k \in 1..Len(nReads) : nReads[k] = 2 * PermSize - 1

\* C30: on every string, hashString of lib/utils.js and hashString of
\* generate.js return the same seed.
TwoHashStringsAgree ==
    \A j \in 1..Len(hRetU), k \in 1..Len(hRetG) : hRetU[j] = hRetG[k]

\* every sample of the buffer has one value
IsUniform(buf) == \A k \in 1..Len(buf) : buf[k] = buf[1]

\* how far the function has come: the blocks done, and within a block the
\* attempts made; it ends at RankEnd
RankStep == MaxAttempts + 3
RankEnd == 13 * RankStep
Rank ==
    IF dPc = "start" THEN 0 - 1
    ELSE IF dPc \in {"returned", "thrown"} THEN RankEnd
    ELSE dI * RankStep
         + (IF dPc = "block" THEN 0
            ELSE IF dPc = "search" THEN 1 + dAttempts
            ELSE MaxAttempts + 2)

\* C27: the search for a source block makes at most 8 attempts per block
\* and the function always ends, every step bringing it nearer to its end;
\* a block is blended only after an attempt found 3 variation points, and
\* is otherwise skipped after the 8th attempt with the buffer left as it
\* was, so a uniformly coloured image is never modified.
QualityMoshBounded ==
    /\ [](dAttempts <= MaxAttempts)
    /\ [](Rank <= RankEnd)
    /\ [][Rank' > Rank]_vars
    /\ [](dPc = "blend" => dSource.variationCount >= EnoughVariation)
    /\ [](dPc = "skip" =>
             dAttempts = MaxAttempts
             /\ dSource.variationCount < EnoughVariation)
    /\ [][dPc = "skip" => dPixels' = dPixels]_vars
    /\ [](IsUniform(dOrig) => dPixels = dOrig)

\* the second block of a uniform image is skipped after 8 attempts, as the
\* first one was
QualityMoshBoundedWitness ==
    /\ dPc = "skip"
    /\ dAttempts = MaxAttempts
    /\ dI = 1
    /\ Len(dOrig) > 0 /\ IsUniform(dOrig)

-----------------------------------------------------------------------------
(* Claims about hashString (specification SpecHash) *)

(* C1: every value hashString returns, in lib/utils.js and in generate.js, *)
(* for every string including the empty one, is a non-negative integer,    *)
(* and every call on the same string returns the value the first call      *)
(* returned.                                                               *)
HashNonNegativeDeterministic ==
    /\ \A k \in 1..Len(hRetU) : NonNegative(hRetU[k]) /\ hRetU[k] = hRetU[1]
    /\ \A k \in 1..Len(hRetG) : NonNegative(hRetG[k]) /\ hRetG[k] = hRetG[1]

\* both implementations were called twice on a string whose 32-bit
\* accumulator in generate.js ended negative
HashWitness ==
    /\ Len(hRetU) = 2
    /\ Len(hRetG) = 2
    /\ hText # <<>>
    /\ hRetG[1] # hRetU[1]

=============================================================================
